---- MODULE Spec2Model ----
(***************************************************************************)
(* Verification model of llmsmith: the Job runner (SequentialJob,          *)
(* ConcurrentJob), JobMemory, the input-template placeholder resolver and  *)
(* the function-calling agents (Cohere, Gemini, Groq, OpenAI).             *)
(*                                                                         *)
(* Python strings are modelled as sequences of one-character strings, so   *)
(* that str.replace is computed the way CPython computes it.               *)
(***************************************************************************)
EXTENDS Integers, Sequences, FiniteSets, TLC

(***************************************************************************)
(* Bounds of the model                                                     *)
(***************************************************************************)
\* the caller makes at most this many calls of add_task and run, over all jobs
MaxCalls == 4

(***************************************************************************)
(* Strings                                                                 *)
(***************************************************************************)
LB == <<"{", "{">>
RB == <<"}", "}">>
DotInput == <<".", "i", "n", "p", "u", "t">>
DotOutput == <<".", "o", "u", "t", "p", "u", "t">>
\* "{{root}}", the default input_template of add_task
RootPlaceholder == LB \o <<"r", "o", "o", "t">> \o RB
\* f"{{{{{key}.input}}}}"
InputPlaceholder(key) == LB \o key \o DotInput \o RB
\* f"{{{{{key}.output}}}}"
OutputPlaceholder(key) == LB \o key \o DotOutput \o RB

NameA == <<"a">>
NameB == <<"b">>

\* str values are wrapped so that a non-str value can stand next to them
Str(s) == [isStr |-> TRUE, v |-> s]
\* a value that is not a str (an int, a list of documents, ...)
NonStr == [isStr |-> FALSE, v |-> <<>>]

IsSpace(c) == c \in {" "}

RECURSIVE LStrip(_)
LStrip(s) == IF s # <<>> /\ IsSpace(Head(s)) THEN LStrip(Tail(s)) ELSE s

RECURSIVE RStrip(_)
RStrip(s) ==
    IF s # <<>> /\ IsSpace(s[Len(s)]) THEN RStrip(SubSeq(s, 1, Len(s) - 1)) ELSE s

\* str.strip()
Strip(s) == RStrip(LStrip(s))

StartsWith(s, old) == Len(old) <= Len(s) /\ SubSeq(s, 1, Len(old)) = old

RECURSIVE ReplaceScan(_, _, _)
ReplaceScan(s, old, new) ==
    IF s = <<>> THEN <<>>
    ELSE IF StartsWith(s, old)
         THEN new \o ReplaceScan(SubSeq(s, Len(old) + 1, Len(s)), old, new)
         ELSE <<Head(s)>> \o ReplaceScan(Tail(s), old, new)

RECURSIVE Interleave(_, _)
Interleave(s, new) ==
    IF s = <<>> THEN new ELSE new \o <<Head(s)>> \o Interleave(Tail(s), new)

\* str.replace(old, new) on str arguments: every non-overlapping occurrence
\* of old, scanning left to right, is replaced by new
StrReplace(s, old, new) ==
    IF old = <<>> THEN Interleave(s, new) ELSE ReplaceScan(s, old, new)

(***************************************************************************)
(* Tasks                                                                   *)
(***************************************************************************)
\* Task.__init__: a task is constructed only with a non-blank name
TaskInit(name) ==
    IF name = <<>> \/ Strip(name) = <<>>
    THEN [err |-> "ValueError", obj |-> [isTask |-> FALSE, name |-> <<>>]]
    ELSE [err |-> "none", obj |-> [isTask |-> TRUE, name |-> name]]

\* the names a caller tries to construct tasks with
CtorNames == {NameA, NameB, <<>>, <<" ">>}

\* the Task objects that exist: those whose constructor returned
Tasks == {TaskInit(n).obj : n \in {m \in CtorNames : TaskInit(m).err = "none"}}

\* an object that is not an instance of Task (it has no name())
NotATask == [isTask |-> FALSE, name |-> <<>>]

Objects == Tasks \cup {NotATask}

\* _JobTask.__init__
JobTask(task, input_template) == [task |-> task, input_template |-> input_template]

(***************************************************************************)
(* JobMemory: two insertion-ordered dicts, kept as sequences of items      *)
(***************************************************************************)
Keys(d) == {d[i].key : i \in 1..Len(d)}

\* a dict assignment that keeps the value a key already has
DictSetKeepFirst(d, key, val) ==
    IF key \in Keys(d) THEN d ELSE Append(d, [key |-> key, val |-> val])

\* dict.__setitem__: an existing key keeps its position
DictSet(d, key, val) ==
    IF key \in Keys(d)
    THEN [i \in 1..Len(d) |-> IF d[i].key = key THEN [key |-> key, val |-> val] ELSE d[i]]
    ELSE Append(d, [key |-> key, val |-> val])

DictGet(d, key) == (CHOOSE i \in 1..Len(d) : d[i].key = key)

\* JobMemory.__init__
JobMemory == [inputs |-> <<>>, outputs |-> <<>>]

\* JobMemory.add_task_input
add_task_input(m, key, task_input) == [m EXCEPT !.inputs = DictSet(@, key, task_input)]

\* JobMemory.add_task_output
add_task_output(m, key, task_output) == [m EXCEPT !.outputs = DictSet(@, key, task_output)]

\* the value None
None == [isNone |-> TRUE, content |-> NonStr]
Some(c) == [isNone |-> FALSE, content |-> c]

\* JobMemory.get_task_input
get_task_input(m, key) ==
    IF key \notin Keys(m.inputs) THEN None ELSE Some(m.inputs[DictGet(m.inputs, key)].val)

\* JobMemory.get_task_output
get_task_output(m, key) ==
    IF key \notin Keys(m.outputs) THEN None ELSE Some(m.outputs[DictGet(m.outputs, key)].val)

(***************************************************************************)
(* _JobTask._replace_input_template_placeholders                           *)
(***************************************************************************)
\* a replacement that puts str(new) for a value that is not a str
ReplaceStepCoercing(acc, old, new) ==
    IF acc.err # "none" THEN acc
    ELSE [err |-> "none", val |-> StrReplace(acc.val, old, new.v)]

\* one str.replace call of the resolver; acc is [err, val]. A replacement
\* argument that is not a str makes str.replace raise TypeError, whether or
\* not the placeholder occurs.
ReplaceStep(acc, old, new) ==
    IF acc.err # "none" THEN acc
    ELSE IF ~new.isStr THEN [err |-> "TypeError", val |-> <<>>]
    ELSE [err |-> "none", val |-> StrReplace(acc.val, old, new.v)]

RECURSIVE ReplaceItems(_, _, _, _)
\* the loop over memory.inputs.items() (kind "input") or
\* memory.outputs.items() (kind "output"), from item i on
ReplaceItems(acc, d, i, kind) ==
    IF i > Len(d) THEN acc
    ELSE ReplaceItems(
            ReplaceStep(acc,
                        IF kind = "input" THEN InputPlaceholder(d[i].key)
                                          ELSE OutputPlaceholder(d[i].key),
                        d[i].val),
            d, i + 1, kind)

\* a resolver that drops the placeholders it found no Memory entry for
replace_input_template_placeholders_dropping(input_template, user_input, memory) ==
    LET r0 == ReplaceStep([err |-> "none", val |-> input_template], RootPlaceholder, user_input)
        r1 == ReplaceItems(r0, memory.inputs, 1, "input")
        r2 == ReplaceItems(r1, memory.outputs, 1, "output")
        r3 == ReplaceStep(r2, InputPlaceholder(NameA), Str(<<>>))
        r4 == ReplaceStep(r3, OutputPlaceholder(NameA), Str(<<>>))
        r5 == ReplaceStep(r4, InputPlaceholder(NameB), Str(<<>>))
    IN  ReplaceStep(r5, OutputPlaceholder(NameB), Str(<<>>))

replace_input_template_placeholders(input_template, user_input, memory) ==
    LET r0 == ReplaceStep([err |-> "none", val |-> input_template], RootPlaceholder, user_input)
        r1 == ReplaceItems(r0, memory.inputs, 1, "input")
    IN  ReplaceItems(r1, memory.outputs, 1, "output")

(***************************************************************************)
(* Job._validate_task_types and Job._validate_task_names                   *)
(***************************************************************************)
RECURSIVE validate_task_types(_)
\* raises TypeError at the first element that is not a Task
validate_task_types(objs) ==
    IF objs = <<>> THEN "none"
    ELSE IF ~Head(objs).isTask THEN "TypeError"
    ELSE validate_task_types(Tail(objs))

RECURSIVE ValidateNamesFrom(_, _, _)
\* the loop of _validate_task_names from element i on; counted is the set of
\* names with a count so far. task.task_name() calls task.name(), which an
\* object that is not a Task does not have.
ValidateNamesFrom(jobTasks, i, counted) ==
    IF i > Len(jobTasks) THEN "none"
    ELSE IF ~jobTasks[i].task.isTask THEN "AttributeError"
    ELSE IF jobTasks[i].task.name \in counted THEN "ValueError"
    ELSE ValidateNamesFrom(jobTasks, i + 1, counted \cup {jobTasks[i].task.name})

validate_task_names(jobTasks) == ValidateNamesFrom(jobTasks, 1, {})

(***************************************************************************)
(* State of the job runner                                                 *)
(***************************************************************************)
\* job 1 is a SequentialJob, job 2 a ConcurrentJob
Jobs == {1, 2}
JobKind == <<"seq", "conc">>

\* the input templates callers register with SequentialJob.add_task
SeqTemplates == {RootPlaceholder, RootPlaceholder \o <<"=">> \o OutputPlaceholder(NameA)}

\* the root inputs callers pass to run
Roots == {Str(<<"Y">>), Str(OutputPlaceholder(NameA)), NonStr}

\* the contents a task's execute returns
TaskOutputs == {Str(<<"O">>), NonStr}

\* a coroutine of _JobTask.execute that has not started yet
NewCo == [st |-> "new", input |-> NonStr, output |-> NonStr, memAt |-> JobMemory]

VARIABLES
    tasks,      \* Job._tasks of each job: a sequence of _JobTask
    memory,     \* Job._memory of each job
    runJob,     \* the job run was called on most recently (0: none yet)
    running,    \* whether that call of run has not returned yet
    userInput,  \* the user_input of that call
    co,         \* the _JobTask.execute coroutines of that call
    memStart,   \* the job's memory when that call was made
    result,     \* how that call ended
    last,       \* the latest call or step and the error it raised
    nAdds,      \* number of add_task calls so far
    nRuns       \* number of run calls so far

jobVars == <<tasks, memory, runJob, running, userInput, co, memStart, result, last, nAdds, nRuns>>

\* a resolver call on its own: a template, a root input, a JobMemory built
\* with add_task_input / add_task_output, and what the call gave
VARIABLES
    resTemplate,    \* _JobTask.input_template
    resUserInput,   \* the user_input argument
    resMemory,      \* the memory argument
    resResult       \* the outcome of _replace_input_template_placeholders

resVars == <<resTemplate, resUserInput, resMemory, resResult>>

\* a function-calling agent and one call of its execute
VARIABLES
    agent,          \* the agent object, once its constructor has run
    pc,             \* where the execute coroutine stands
    turn,           \* the loop variable of `for turn in range(self.max_turns)`
    taskInput,      \* task_input.content
    payload,        \* the conversation state execute keeps for the model
    pending,        \* the function calls of this turn not dispatched yet
    current,        \* the latest chat response (OpenAI: the latest run)
    modelLog,       \* every model invocation: what was sent, what came back
    toolLog,        \* every invocation of a callable of the tool registry
    outcome         \* how execute ended

agentVars == <<agent, pc, turn, taskInput, payload, pending, current, modelLog, toolLog, outcome>>

\* a text-generation task and one call of its execute
VARIABLES
    textgen         \* the task object, where its execute stands, the calls
                    \* it made of its provider, and how it ended

\* a JobMemory and the calls a caller makes of its four methods
VARIABLES
    jobMemory,            \* the JobMemory object
    memLog,         \* the add calls made so far, in call order
    memGot          \* the latest call and what it returned

memVars == <<jobMemory, memLog, memGot>>

\* a CohereReranker and one call of its rerank
VARIABLES
    reranker        \* the docs list of the caller, the provider's results,
                    \* the list built so far and how the call ended

vars == <<jobVars, resVars, agentVars, textgen, memVars, reranker>>

\* the variables a step of the job runner leaves alone
notJobVars == <<resVars, agentVars, textgen, memVars, reranker>>
\* the variables a step of the resolver leaves alone
notResVars == <<jobVars, agentVars, textgen, memVars, reranker>>
\* the variables a step of an agent leaves alone
notAgentVars == <<jobVars, resVars, textgen, memVars, reranker>>
\* the variables a step of a text-generation task leaves alone
notTextGenVars == <<jobVars, resVars, agentVars, memVars, reranker>>
\* the variables a call of a JobMemory method leaves alone
notMemVars == <<jobVars, resVars, agentVars, textgen, reranker>>
\* the variables a step of the reranker leaves alone
notRerankVars == <<jobVars, resVars, agentVars, textgen, memVars>>

JobInit ==
    /\ tasks = [j \in Jobs |-> <<>>]
    /\ memory = [j \in Jobs |-> JobMemory]
    /\ runJob = 0
    /\ running = FALSE
    /\ userInput = NonStr
    /\ co = <<>>
    /\ memStart = JobMemory
    /\ result = "none"
    /\ last = [op |-> "none", job |-> 0, err |-> "none"]
    /\ nAdds = 0
    /\ nRuns = 0

\* no resolver call under study
ResIdle ==
    /\ resTemplate = <<>>
    /\ resUserInput = NonStr
    /\ resMemory = JobMemory
    /\ resResult = [st |-> "idle", err |-> "none", val |-> <<>>]

\* no agent constructed yet
AgentInit ==
    /\ agent = [state |-> "none", err |-> "none", provider |-> "none",
                max_turns |-> 0, tool_callables |-> {}]
    /\ pc = "idle"
    /\ turn = 0
    /\ taskInput = NonStr
    /\ payload = <<>>
    /\ pending = <<>>
    /\ current = [kind |-> "none"]
    /\ modelLog = <<>>
    /\ toolLog = <<>>
    /\ outcome = [kind |-> "none", err |-> "none", reason |-> "none",
                  content |-> NonStr, raw_output |-> [kind |-> "none"]]

\* no text-generation task constructed yet
TextGenInit ==
    textgen = [state |-> "none", provider |-> "none", system_prompt |-> NonStr,
               pc |-> "idle", input |-> NonStr, calls |-> <<>>,
               outcome |-> [kind |-> "none", err |-> "none", reason |-> "none",
                            content |-> NonStr, raw_output |-> [kind |-> "none"]]]

\* a JobMemory just constructed, no method called yet
MemInit ==
    /\ jobMemory = JobMemory
    /\ memLog = <<>>
    /\ memGot = [op |-> "none", key |-> <<>>, val |-> None]

\* a CohereReranker just constructed, rerank not called yet
RerankInit ==
    reranker = [pc |-> "idle", docs |-> <<>>, given |-> <<>>, results |-> <<>>,
                reranked_docs |-> <<>>, outcome |-> "none"]

Settled(c) == \A i \in 1..Len(c) : c[i].st \in {"done", "raised"}

(***************************************************************************)
(* SequentialJob.add_task / ConcurrentJob.add_task                         *)
(***************************************************************************)
\* the error add_task raises, given the task list after the append
AddTaskError(task, appended) ==
    IF validate_task_types(<<task>>) # "none" THEN validate_task_types(<<task>>)
    ELSE validate_task_names(appended)

\* the task list add_task leaves behind
AddTaskList(jobTasks, task, input_template) ==
    Append(jobTasks, JobTask(task, input_template))

\* add_task is not called on a job while a run of it is in progress
add_task(j, task, input_template) ==
    /\ nAdds + nRuns < MaxCalls
    /\ j = runJob => Settled(co)
    /\ tasks' = [tasks EXCEPT ![j] = AddTaskList(@, task, input_template)]
    /\ last' = [op |-> "add_task", job |-> j, err |-> AddTaskError(task, tasks'[j])]
    /\ nAdds' = nAdds + 1
    /\ UNCHANGED <<memory, runJob, running, userInput, co, memStart, result, nRuns>>
    /\ UNCHANGED notJobVars

SeqAddTask ==
    \E task \in Objects, input_template \in SeqTemplates :
        /\ JobKind[1] = "seq"
        /\ add_task(1, task, input_template)

ConcAddTask ==
    \E task \in Objects :
        /\ JobKind[2] = "conc"
        /\ add_task(2, task, RootPlaceholder)

(***************************************************************************)
(* _JobTask.execute, in two steps: up to the await of task.execute, and    *)
(* from its return (or its exception) on                                   *)
(***************************************************************************)
\* the error _JobTask.execute raises before task.execute is called
ExecuteBeginError(jt, user_input, mem) ==
    LET r == replace_input_template_placeholders(jt.input_template, user_input, mem)
    IN  IF r.err # "none" THEN r.err
        ELSE IF ~jt.task.isTask THEN "AttributeError"
        ELSE "none"

\* the TaskInput built from the resolved template
ExecuteTaskInput(jt, user_input, mem) ==
    Str(replace_input_template_placeholders(jt.input_template, user_input, mem).val)

\* first half of _JobTask.execute for the coroutine i of the run
ExecuteBegin(i) ==
    LET j == runJob
        jt == tasks[j][i]
        e == ExecuteBeginError(jt, userInput, memory[j])
        ti == ExecuteTaskInput(jt, userInput, memory[j])
    IN  IF e # "none"
        THEN /\ co' = [co EXCEPT ![i].st = "raised", ![i].memAt = memory[j]]
             /\ memory' = memory
        ELSE /\ co' = [co EXCEPT ![i] = [st |-> "awaiting", input |-> ti,
                                         output |-> NonStr, memAt |-> memory[j]]]
             /\ memory' = [memory EXCEPT ![j] = add_task_input(@, jt.task.name, ti)]

\* a second half that puts Memory back as it was at the call when the task
\* raises
ExecuteEndRollback(i, raised, out) ==
    IF raised
    THEN /\ co' = [co EXCEPT ![i].st = "raised"]
         /\ memory' = [memory EXCEPT ![runJob] = memStart]
    ELSE /\ co' = [co EXCEPT ![i].st = "done", ![i].output = out]
         /\ memory' = [memory EXCEPT ![runJob] =
                            add_task_output(@, tasks[runJob][i].task.name, out)]

\* second half of _JobTask.execute: task.execute returned out, or raised
ExecuteEnd(i, raised, out) ==
    IF raised
    THEN /\ co' = [co EXCEPT ![i].st = "raised"]
         /\ memory' = memory
    ELSE /\ co' = [co EXCEPT ![i].st = "done", ![i].output = out]
         /\ memory' = [memory EXCEPT ![runJob] =
                            add_task_output(@, tasks[runJob][i].task.name, out)]

\* a run that starts from an empty Memory
RunCallClearing(j, user_input) ==
    /\ nAdds + nRuns < MaxCalls
    /\ ~running
    /\ Settled(co)
    /\ runJob' = j
    /\ userInput' = user_input
    /\ co' = [i \in 1..Len(tasks[j]) |-> NewCo]
    /\ memStart' = memory[j]
    /\ memory' = [memory EXCEPT ![j] = JobMemory]
    /\ running' = (Len(tasks[j]) > 0)
    /\ result' = IF Len(tasks[j]) > 0 THEN "none" ELSE "ok"
    /\ last' = [op |-> "run", job |-> j, err |-> "none"]
    /\ nRuns' = nRuns + 1
    /\ UNCHANGED <<tasks, nAdds>>
    /\ UNCHANGED notJobVars

\* the call of run: the coroutines of the registered tasks are created.
\* The caller has one run in progress at a time.
RunCall(j, user_input) ==
    /\ nAdds + nRuns < MaxCalls
    /\ ~running
    /\ Settled(co)
    /\ runJob' = j
    /\ userInput' = user_input
    /\ co' = [i \in 1..Len(tasks[j]) |-> NewCo]
    /\ memStart' = memory[j]
    /\ running' = (Len(tasks[j]) > 0)
    /\ result' = IF Len(tasks[j]) > 0 THEN "none" ELSE "ok"
    /\ last' = [op |-> "run", job |-> j, err |-> "none"]
    /\ nRuns' = nRuns + 1
    /\ UNCHANGED <<tasks, memory, nAdds>>
    /\ UNCHANGED notJobVars

(***************************************************************************)
(* SequentialJob.run                                                       *)
(***************************************************************************)
SeqRun ==
    \E user_input \in Roots :
        /\ JobKind[1] = "seq"
        /\ RunCall(1, user_input)

\* a loop that walks the task list from its end
SeqNextReversed ==
    IF \E i \in 1..Len(co) : co[i].st # "done"
    THEN CHOOSE i \in 1..Len(co) :
            /\ co[i].st # "done"
            /\ \A k \in (i + 1)..Len(co) : co[k].st = "done"
    ELSE 0

\* the position of the for loop: the first task that has not been executed
SeqNext ==
    IF \E i \in 1..Len(co) : co[i].st # "done"
    THEN CHOOSE i \in 1..Len(co) :
            /\ co[i].st # "done"
            /\ \A k \in 1..(i - 1) : co[k].st = "done"
    ELSE 0

\* an iteration of the loop, up to the await inside task.execute
SeqTaskBegin ==
    /\ runJob # 0
    /\ JobKind[runJob] = "seq"
    /\ running
    /\ SeqNext # 0
    /\ co[SeqNext].st = "new"
    /\ ExecuteBegin(SeqNext)
    /\ LET e == ExecuteBeginError(tasks[runJob][SeqNext], userInput, memory[runJob])
       IN  /\ running' = (e = "none")
           /\ result' = IF e = "none" THEN "none" ELSE e
           /\ last' = [op |-> "step", job |-> runJob, err |-> e]
    /\ UNCHANGED <<tasks, runJob, userInput, memStart, nAdds, nRuns>>
    /\ UNCHANGED notJobVars

\* the rest of the iteration; after the last task, run returns
SeqTaskEnd ==
    \E raised \in BOOLEAN, out \in TaskOutputs :
        /\ runJob # 0
        /\ JobKind[runJob] = "seq"
        /\ running
        /\ SeqNext # 0
        /\ co[SeqNext].st = "awaiting"
        /\ raised => out = NonStr
        /\ ExecuteEnd(SeqNext, raised, out)
        /\ running' = (~raised /\ SeqNext < Len(co))
        /\ result' = IF raised THEN "TaskError"
                     ELSE IF SeqNext < Len(co) THEN "none" ELSE "ok"
        /\ last' = [op |-> "step", job |-> runJob,
                    err |-> IF raised THEN "TaskError" ELSE "none"]
        /\ UNCHANGED <<tasks, runJob, userInput, memStart, nAdds, nRuns>>
        /\ UNCHANGED notJobVars
    /\ UNCHANGED notJobVars

(***************************************************************************)
(* ConcurrentJob.run: asyncio.gather over the coroutines                   *)
(***************************************************************************)
ConcRun ==
    \E user_input \in Roots :
        /\ JobKind[2] = "conc"
        /\ RunCall(2, user_input)

\* asyncio starts the gathered coroutines in the order they were passed
ConcNext ==
    IF \E i \in 1..Len(co) : co[i].st = "new"
    THEN CHOOSE i \in 1..Len(co) :
            /\ co[i].st = "new"
            /\ \A k \in 1..(i - 1) : co[k].st # "new"
    ELSE 0

\* a wait that ends as soon as any one child has settled
GatherSettleFirst(err) ==
    /\ running' = FALSE
    /\ result' = IF ~running THEN result
                 ELSE IF err # "none" THEN err ELSE "ok"

\* a wait that raises only when every child has settled
GatherSettleWaiting(err) ==
    /\ running' = (running /\ ~Settled(co'))
    /\ result' = IF ~running THEN result
                 ELSE IF ~Settled(co') THEN "none"
                 ELSE IF err # "none" THEN err
                 ELSE IF \E i \in 1..Len(co') : co'[i].st = "raised" THEN "TaskError"
                 ELSE "ok"

\* what gather does when a child settles: the first exception is raised to
\* the awaiting run at once, the result is returned when every child is done
GatherSettle(err) ==
    /\ running' = (running /\ err = "none" /\ ~Settled(co'))
    /\ result' = IF ~running THEN result
                 ELSE IF err # "none" THEN err
                 ELSE IF Settled(co') THEN "ok" ELSE "none"

ConcTaskBegin ==
    /\ runJob # 0
    /\ JobKind[runJob] = "conc"
    /\ ConcNext # 0
    /\ ExecuteBegin(ConcNext)
    /\ LET e == ExecuteBeginError(tasks[runJob][ConcNext], userInput, memory[runJob])
       IN  /\ GatherSettle(e)
           /\ last' = [op |-> "step", job |-> runJob, err |-> e]
    /\ UNCHANGED <<tasks, runJob, userInput, memStart, nAdds, nRuns>>
    /\ UNCHANGED notJobVars

ConcTaskEnd ==
    \E raised \in BOOLEAN, out \in TaskOutputs :
        /\ runJob # 0
        /\ JobKind[runJob] = "conc"
        /\ \E i \in 1..Len(co) :
            /\ co[i].st = "awaiting"
            /\ raised => out = NonStr
            /\ ExecuteEnd(i, raised, out)
        /\ GatherSettle(IF raised THEN "TaskError" ELSE "none")
        /\ last' = [op |-> "step", job |-> runJob,
                    err |-> IF raised THEN "TaskError" ELSE "none"]
        /\ UNCHANGED <<tasks, runJob, userInput, memStart, nAdds, nRuns>>
        /\ UNCHANGED notJobVars
    /\ UNCHANGED notJobVars

JobNext ==
    \/ SeqAddTask
    \/ ConcAddTask
    \/ SeqRun
    \/ SeqTaskBegin
    \/ SeqTaskEnd
    \/ ConcRun
    \/ ConcTaskBegin
    \/ ConcTaskEnd

\* jobs as constructed, and nothing else under study
JobSpecInit == JobInit /\ ResIdle /\ AgentInit /\ TextGenInit /\ MemInit /\ RerankInit

SpecJob == JobSpecInit /\ [][JobNext]_vars

(***************************************************************************)
(* The resolver on its own                                                 *)
(***************************************************************************)
\* add_task_input / add_task_output are called at most this many times
MaxMemOps == 3

ResKeys == {NameA, NameB}

ResTemplates ==
    { <<"Q", ":", " ">> \o RootPlaceholder,
      <<"c", "t", "x", "=">> \o OutputPlaceholder(NameA),
      InputPlaceholder(NameA) \o <<"|">> \o OutputPlaceholder(NameB) \o RootPlaceholder }

ResRoots == {Str(<<"X">>), Str(InputPlaceholder(NameA)), NonStr}

ResContents == {Str(<<"A", "-", "O", "U", "T">>), Str(OutputPlaceholder(NameB)), NonStr}

ResInit ==
    /\ resTemplate \in ResTemplates
    /\ resUserInput \in ResRoots
    /\ resMemory = JobMemory
    /\ resResult = [st |-> "pending", err |-> "none", val |-> <<>>]

MemOps == Len(resMemory.inputs) + Len(resMemory.outputs)

\* JobMemory.add_task_input
ResAddTaskInput ==
    \E key \in ResKeys, c \in ResContents :
        /\ resResult.st = "pending"
        /\ MemOps < MaxMemOps
        /\ resMemory' = add_task_input(resMemory, key, c)
        /\ UNCHANGED <<resTemplate, resUserInput, resResult>>
        /\ UNCHANGED notResVars

\* JobMemory.add_task_output
ResAddTaskOutput ==
    \E key \in ResKeys, c \in ResContents :
        /\ resResult.st = "pending"
        /\ MemOps < MaxMemOps
        /\ resMemory' = add_task_output(resMemory, key, c)
        /\ UNCHANGED <<resTemplate, resUserInput, resResult>>
        /\ UNCHANGED notResVars

\* _JobTask._replace_input_template_placeholders
ResResolve ==
    /\ resResult.st = "pending"
    /\ LET r == replace_input_template_placeholders(resTemplate, resUserInput, resMemory)
       IN  resResult' = [st |-> "done", err |-> r.err, val |-> r.val]
    /\ UNCHANGED <<resTemplate, resUserInput, resMemory>>
    /\ UNCHANGED notResVars

ResNext ==
    \/ ResAddTaskInput
    \/ ResAddTaskOutput
    \/ ResResolve

\* a resolver call to make, and no job under study
ResSpecInit == ResInit /\ JobInit /\ AgentInit /\ TextGenInit /\ MemInit /\ RerankInit

SpecResolve == ResSpecInit /\ [][ResNext]_vars

(***************************************************************************)
(* JobMemory called directly                                               *)
(***************************************************************************)
MemKeys == {NameA, NameB}
MemContents == {Str(<<"I">>), Str(<<"O">>), NonStr}

\* memory.add_task_input(key, TaskInput(c))
MemAddTaskInput ==
    \E key \in MemKeys, c \in MemContents :
        /\ Len(memLog) < MaxMemOps
        /\ jobMemory' = add_task_input(jobMemory, key, c)
        /\ memLog' = Append(memLog, [op |-> "add_task_input", key |-> key, content |-> c])
        /\ memGot' = [op |-> "add_task_input", key |-> key, val |-> None]
        /\ UNCHANGED notMemVars

\* memory.add_task_output(key, TaskOutput(c))
MemAddTaskOutput ==
    \E key \in MemKeys, c \in MemContents :
        /\ Len(memLog) < MaxMemOps
        /\ jobMemory' = add_task_output(jobMemory, key, c)
        /\ memLog' = Append(memLog, [op |-> "add_task_output", key |-> key, content |-> c])
        /\ memGot' = [op |-> "add_task_output", key |-> key, val |-> None]
        /\ UNCHANGED notMemVars

\* memory.get_task_input(key)
MemGetTaskInput ==
    \E key \in MemKeys :
        /\ memGot' = [op |-> "get_task_input", key |-> key, val |-> get_task_input(jobMemory, key)]
        /\ UNCHANGED <<jobMemory, memLog>>
        /\ UNCHANGED notMemVars

\* memory.get_task_output(key)
MemGetTaskOutput ==
    \E key \in MemKeys :
        /\ memGot' = [op |-> "get_task_output", key |-> key, val |-> get_task_output(jobMemory, key)]
        /\ UNCHANGED <<jobMemory, memLog>>
        /\ UNCHANGED notMemVars

MemNext ==
    \/ MemAddTaskInput
    \/ MemAddTaskOutput
    \/ MemGetTaskInput
    \/ MemGetTaskOutput

\* a fresh JobMemory, and no job, resolver call, agent or task under study
MemSpecInit == MemInit /\ JobInit /\ ResIdle /\ AgentInit /\ TextGenInit /\ RerankInit

SpecMemory == MemSpecInit /\ [][MemNext]_vars

(***************************************************************************)
(* Function-calling agents: provider replies and the chat primitives       *)
(***************************************************************************)
\* an agent is constructed with at most this many turns
MaxTurns == 3

Providers == {"cohere", "gemini", "groq", "openai"}

\* the names of the tools a model asks for
NameF == <<"f">>
NameG == <<"g">>
NameH == <<"h">>

\* the tool lists agents are constructed with (by tool name); "h" is never
\* registered
ToolSets == {{NameF}, {NameF, NameG}}

\* the texts a model answers with
TextOne == Str(<<"t", "1">>)
TextTwo == Str(<<"t", "2">>)
\* the value None where a text is expected
NoneContent == [isStr |-> FALSE, v |-> <<"N", "o", "n", "e">>]
\* the int 1, as some_func of the tests returns it
IntOne == [isStr |-> FALSE, v |-> <<"1">>]
\* str(x)
ToStr(x) == Str(x.v)

\* the argument dicts of the function calls
ArgsEmpty == <<>>
ArgsX(n) == <<[key |-> <<"x">>, val |-> n]>>
\* json.loads
JsonLoads(s) ==
    CASE s = "{}" -> ArgsEmpty
      [] s = "{\"x\": 1}" -> ArgsX(1)
      [] s = "{\"x\": 2}" -> ArgsX(2)
\* json.dumps
JsonDumps(d) ==
    IF d = ArgsEmpty THEN "{}"
    ELSE IF d = ArgsX(1) THEN "{\"x\": 1}" ELSE "{\"x\": 2}"
\* json.loads(arguments) if arguments else {}
LoadsOrEmpty(arguments) == IF arguments = "" THEN ArgsEmpty ELSE JsonLoads(arguments)

\* a dict-or-None argument value (Cohere parameters, Gemini args)
NoDict == [isNone |-> TRUE, d |-> <<>>]
ADict(d) == [isNone |-> FALSE, d |-> d]
\* x or {}
OrEmpty(x) == IF x.isNone THEN ArgsEmpty ELSE x.d

\* the dataclasses of task/models.py
FunctionCallFields == {"id", "args"}
\* FunctionCall(**kw): the generated __init__ takes the declared fields only
FunctionCall(kw) ==
    IF DOMAIN kw = FunctionCallFields
    THEN [err |-> "none", obj |-> kw]
    ELSE [err |-> "TypeError", obj |-> kw]
ChatResponse(text, raw_output, function_calls) ==
    [text |-> text, raw_output |-> raw_output, function_calls |-> function_calls]
TaskOutput(content, raw_output) == [content |-> content, raw_output |-> raw_output]

\* no reply yet
NoReply == [kind |-> "none"]
\* what a chat primitive gives: a ChatResponse, or the exception it raises
ChatOk(resp) == [err |-> "none", reason |-> "none", resp |-> resp]
ChatRaise(err, reason) ==
    [err |-> err, reason |-> reason, resp |-> ChatResponse(NoneContent, NoReply, <<>>)]

\* the ids the providers give the tool calls of one reply
CallIds == <<"call-1", "call-2">>

\* ---- Cohere ----
CohereToolCall(name, parameters) == [name |-> name, parameters |-> parameters]
CohereCallLists ==
    { <<CohereToolCall(NameF, ADict(ArgsX(1)))>>,
      <<CohereToolCall(NameF, ADict(ArgsX(1))), CohereToolCall(NameG, NoDict)>>,
      <<CohereToolCall(NameF, ADict(ArgsX(1))), CohereToolCall(NameF, ADict(ArgsX(2)))>>,
      <<CohereToolCall(NameH, ADict(ArgsEmpty))>> }
CohereReply(finish_reason, text, tool_calls) ==
    [kind |-> "cohere", finish_reason |-> finish_reason, text |-> text, tool_calls |-> tool_calls]
CohereReplies ==
    {CohereReply("COMPLETE", t, <<>>) : t \in {TextOne, TextTwo}}
    \cup {CohereReply("COMPLETE", TextOne, c) : c \in CohereCallLists}
    \cup {CohereReply(f, TextOne, <<>>) :
                f \in {"MAX_TOKENS", "ERROR_TOXIC", "ERROR_LIMIT", "USER_CANCEL", "ERROR"}}

\* BaseCohereChat._block_reason_str
CohereBlockReasonStr(llm_reply) ==
    CASE llm_reply.finish_reason = "ERROR_TOXIC" -> "SAFETY_CHECK_FAILED"
      [] llm_reply.finish_reason = "ERROR_LIMIT" -> "LIMIT_EXCEEDED"
      [] llm_reply.finish_reason = "MAX_TOKENS" -> "MAX_TOKENS_REACHED"
      [] llm_reply.finish_reason = "USER_CANCEL" -> "CANCELLED"
      [] OTHER -> "OTHER"

RECURSIVE CohereFunctionCalls(_, _)
\* {tool_call.name: FunctionCall(id=None, args=tool_call.parameters or {}) ...}
\* over the first n tool calls
CohereFunctionCalls(tool_calls, n) ==
    IF n = 0 THEN <<>>
    ELSE DictSet(CohereFunctionCalls(tool_calls, n - 1),
                 tool_calls[n].name,
                 FunctionCall([id |-> "None", args |-> OrEmpty(tool_calls[n].parameters)]).obj)

\* a chat that takes a reply cut at the token limit for a complete one
CohereChatTakingMaxTokens(llm_reply) ==
    IF llm_reply.finish_reason \notin {"COMPLETE", "MAX_TOKENS"}
    THEN ChatRaise("TextGenFailedException", CohereBlockReasonStr(llm_reply))
    ELSE ChatOk(ChatResponse(llm_reply.text, llm_reply,
                    IF llm_reply.tool_calls # <<>>
                    THEN CohereFunctionCalls(llm_reply.tool_calls, Len(llm_reply.tool_calls))
                    ELSE <<>>))

\* BaseCohereChat.chat, from the provider's reply on
CohereChat(llm_reply) ==
    IF llm_reply.finish_reason # "COMPLETE"
    THEN ChatRaise("TextGenFailedException", CohereBlockReasonStr(llm_reply))
    ELSE ChatOk(ChatResponse(llm_reply.text, llm_reply,
                    IF llm_reply.tool_calls # <<>>
                    THEN CohereFunctionCalls(llm_reply.tool_calls, Len(llm_reply.tool_calls))
                    ELSE <<>>))

\* ---- Gemini ----
TextPart(text) == [kind |-> "text", text |-> text, name |-> <<>>, args |-> NoDict]
CallPart(name, args) == [kind |-> "function_call", text |-> Str(<<>>), name |-> name, args |-> args]
Candidate(finish_reason, parts) == [finish_reason |-> finish_reason, parts |-> parts]
GeminiReply(block_reason, candidates) ==
    [kind |-> "gemini", block_reason |-> block_reason, candidates |-> candidates]
GeminiPartLists ==
    { <<TextPart(TextOne)>>, <<TextPart(TextTwo)>>,
      <<CallPart(NameF, ADict(ArgsX(1)))>>,
      <<CallPart(NameF, ADict(ArgsX(1))), CallPart(NameG, NoDict)>>,
      <<TextPart(TextOne), CallPart(NameF, ADict(ArgsX(2)))>>,
      <<CallPart(NameH, NoDict)>>,
      <<>> }
GeminiReplies ==
    {GeminiReply("BLOCK_REASON_UNSPECIFIED", <<Candidate("STOP", p)>>) : p \in GeminiPartLists}
    \cup { GeminiReply("BLOCK_REASON_UNSPECIFIED", <<Candidate("MAX_TOKENS", <<TextPart(TextOne)>>)>>),
           GeminiReply("BLOCK_REASON_UNSPECIFIED",
                       <<Candidate("MAX_TOKENS", <<TextPart(TextOne)>>),
                         Candidate("STOP", <<TextPart(TextTwo)>>)>>),
           GeminiReply("SAFETY", <<>>),
           GeminiReply("OTHER", <<Candidate("STOP", <<TextPart(TextOne)>>)>>),
           GeminiReply("BLOCK_REASON_UNSPECIFIED",
                       <<Candidate("MAX_TOKENS", <<CallPart(NameF, ADict(ArgsX(1)))>>),
                         Candidate("STOP", <<TextPart(TextTwo)>>)>>) }

\* BaseGeminiChat._block_reason_str
GeminiBlockReasonStr(llm_reply) ==
    IF llm_reply.block_reason = "SAFETY" THEN "SAFETY_CHECK_FAILED" ELSE "OTHER"

\* next((x for x in seq if ...), None), given for each element of seq
\* whether it matches: the index of the first match, or 0 for None
FirstIndex(matches) ==
    IF \E i \in 1..Len(matches) : matches[i]
    THEN CHOOSE i \in 1..Len(matches) : matches[i] /\ \A k \in 1..(i - 1) : ~matches[k]
    ELSE 0

IsStop(c) == c.finish_reason = "STOP"
HasFunctionCall(p) == p.kind = "function_call"
HasText(p) == p.kind = "text" /\ p.text.v # <<>>

\* a classification that looks for a text part before a function-call part
GeminiChatTextFirst(llm_reply) ==
    IF llm_reply.block_reason \notin {"", "BLOCK_REASON_UNSPECIFIED"}
    THEN ChatRaise("PromptBlockedException", GeminiBlockReasonStr(llm_reply))
    ELSE LET c == FirstIndex([i \in 1..Len(llm_reply.candidates) |->
                                IsStop(llm_reply.candidates[i])])
         IN  IF c = 0
             THEN ChatRaise("TextGenFailedException", "NO_NATURAL_STOP_POINT")
             ELSE LET parts == llm_reply.candidates[c].parts
                      fc == FirstIndex([i \in 1..Len(parts) |-> HasFunctionCall(parts[i])])
                      tx == FirstIndex([i \in 1..Len(parts) |-> HasText(parts[i])])
                  IN  IF tx # 0
                      THEN ChatOk(ChatResponse(parts[tx].text, llm_reply, <<>>))
                      ELSE IF fc = 0
                      THEN ChatRaise("TextGenFailedException", "NO_TEXT_DATA")
                      ELSE ChatOk(ChatResponse(NoneContent, llm_reply,
                              <<[key |-> parts[fc].name,
                                 val |-> FunctionCall([id |-> "None",
                                                       args |-> OrEmpty(parts[fc].args)]).obj]>>))

\* BaseGeminiChat.chat, from the provider's reply on
GeminiChat(llm_reply) ==
    IF llm_reply.block_reason \notin {"", "BLOCK_REASON_UNSPECIFIED"}
    THEN ChatRaise("PromptBlockedException", GeminiBlockReasonStr(llm_reply))
    ELSE LET c == FirstIndex([i \in 1..Len(llm_reply.candidates) |->
                                IsStop(llm_reply.candidates[i])])
         IN  IF c = 0
             THEN ChatRaise("TextGenFailedException", "NO_NATURAL_STOP_POINT")
             ELSE LET parts == llm_reply.candidates[c].parts
                      fc == FirstIndex([i \in 1..Len(parts) |-> HasFunctionCall(parts[i])])
                      tx == FirstIndex([i \in 1..Len(parts) |-> HasText(parts[i])])
                  IN  IF fc # 0
                      THEN ChatOk(ChatResponse(NoneContent, llm_reply,
                              <<[key |-> parts[fc].name,
                                 val |-> FunctionCall([id |-> "None",
                                                       args |-> OrEmpty(parts[fc].args)]).obj]>>))
                      ELSE IF tx = 0
                      THEN ChatRaise("TextGenFailedException", "NO_TEXT_DATA")
                      ELSE ChatOk(ChatResponse(parts[tx].text, llm_reply, <<>>))

\* ---- Groq ----
GroqToolCall(id, name, arguments) ==
    [id |-> id, function |-> [name |-> name, arguments |-> arguments]]
GroqCallLists ==
    { <<GroqToolCall(CallIds[1], NameF, "{\"x\": 1}")>>,
      <<GroqToolCall(CallIds[1], NameF, "{\"x\": 1}"), GroqToolCall(CallIds[2], NameG, "")>>,
      <<GroqToolCall(CallIds[1], NameF, "{\"x\": 1}"),
        GroqToolCall(CallIds[2], NameF, "{\"x\": 2}")>>,
      <<GroqToolCall(CallIds[1], NameH, "{}")>> }
Choice(finish_reason, content, tool_calls) ==
    [finish_reason |-> finish_reason,
     message |-> [content |-> content, tool_calls |-> tool_calls]]
GroqReply(choices) == [kind |-> "groq", choices |-> choices]
GroqReplies ==
    {GroqReply(<<Choice("stop", t, <<>>)>>) : t \in {TextOne, TextTwo}}
    \cup {GroqReply(<<Choice("tool_calls", NoneContent, c)>>) : c \in GroqCallLists}
    \cup {GroqReply(<<Choice("length", TextOne, <<>>)>>)}

IsToolCalls(c) == c.finish_reason = "tool_calls"
IsStopChoice(c) == c.finish_reason = "stop"

\* FunctionCall(id=tool.id, name=tool.function.name, args=...) of BaseGroqChat.chat
GroqFunctionCall(tool) ==
    FunctionCall([id |-> tool.id, name |-> tool.function.name,
                  args |-> LoadsOrEmpty(tool.function.arguments)])

RECURSIVE GroqFunctionCalls(_, _)
\* {tool.id: FunctionCall(...) for tool in tool_calls}, over the first n
GroqFunctionCalls(tool_calls, n) ==
    IF n = 0 THEN <<>>
    ELSE DictSet(GroqFunctionCalls(tool_calls, n - 1),
                 tool_calls[n].id, GroqFunctionCall(tool_calls[n]).obj)

\* BaseGroqChat.chat, from the provider's reply on
GroqChat(llm_reply) ==
    LET tc == FirstIndex([i \in 1..Len(llm_reply.choices) |->
                            IsToolCalls(llm_reply.choices[i])])
        st == FirstIndex([i \in 1..Len(llm_reply.choices) |->
                            IsStopChoice(llm_reply.choices[i])])
    IN  IF tc # 0
        THEN LET msg == llm_reply.choices[tc].message
             IN  IF \E i \in 1..Len(msg.tool_calls) :
                        GroqFunctionCall(msg.tool_calls[i]).err # "none"
                 THEN ChatRaise("TypeError", "none")
                 ELSE ChatOk(ChatResponse(msg.content, llm_reply,
                                GroqFunctionCalls(msg.tool_calls, Len(msg.tool_calls))))
        ELSE IF st = 0
        THEN ChatRaise("TextGenFailedException", "NO_NATURAL_STOP_POINT")
        ELSE ChatOk(ChatResponse(llm_reply.choices[st].message.content, llm_reply, <<>>))

\* ---- OpenAI assistants ----
OpenAIToolCall(id, name, arguments) ==
    [id |-> id, function |-> [name |-> name, arguments |-> arguments]]
OpenAICallLists ==
    { <<OpenAIToolCall(CallIds[1], NameF, "{\"x\": 1}")>>,
      <<OpenAIToolCall(CallIds[1], NameF, "{\"x\": 1}"), OpenAIToolCall(CallIds[2], NameG, "")>>,
      <<OpenAIToolCall(CallIds[1], NameF, "{\"x\": 1}"),
        OpenAIToolCall(CallIds[2], NameF, "{\"x\": 2}")>>,
      <<OpenAIToolCall(CallIds[1], NameH, "{}")>> }
TextContent(value) == [type |-> "text", value |-> value]
ImageContent == [type |-> "image_file", value |-> NoneContent]
\* a run as create_and_poll / submit_tool_outputs_and_poll return it, with
\* the content of the latest message the run left in the thread
Run(status, tool_calls, message) ==
    [kind |-> "openai", status |-> status, tool_calls |-> tool_calls, message |-> message,
     last_error |-> "None"]
\* a failed run whose last_error has the given code
FailedRun(code) == [Run("failed", <<>>, <<>>) EXCEPT !.last_error = code]
OpenAIRuns ==
    {Run("completed", <<>>, m) :
        m \in {<<TextContent(TextOne)>>, <<ImageContent, TextContent(TextTwo)>>, <<ImageContent>>}}
    \cup {Run("requires_action", c, <<>>) : c \in OpenAICallLists}
    \cup {Run(s, <<>>, <<>>) : s \in {"failed", "cancelled", "expired"}}
    \cup {FailedRun(code) : code \in {"invalid_prompt", "rate_limit_exceeded", "server_error"}}

IsTextContent(content) == content.type = "text"

\* next((content.text.value for content in ... if content.type == "text"), None)
AssistantRes(message) ==
    LET t == FirstIndex([i \in 1..Len(message) |-> IsTextContent(message[i])])
    IN  IF t = 0 THEN NoneContent ELSE message[t].value

\* OpenAIFunctionAgent.__failure_reason; execute passes it run.status, a
\* str, and the method reads .status of its argument
failure_reason(run) ==
    IF "status" \notin DOMAIN run
    THEN [err |-> "AttributeError", reason |-> "none"]
    ELSE [err |-> "none",
          reason |-> CASE run.status = "cancelled" -> "OPENAI__RUN_CANCELLED"
                       [] run.status = "failed" ->
                            IF run.last_error = "None" THEN "OPENAI__RUN_FAILED"
                            ELSE IF run.last_error = "invalid_prompt" THEN "INVALID_PROMPT"
                            ELSE IF run.last_error = "rate_limit_exceeded"
                            THEN "RATE_LIMIT_EXCEEDED"
                            ELSE IF run.last_error = "server_error" THEN "SERVER_ERROR"
                            ELSE "OPENAI__RUN_FAILED"
                       [] run.status = "expired" -> "OPENAI__RUN_EXPIRED"
                       [] OTHER -> "OPENAI__UNKNOWN_ERR"]
\* the str run.status as an object: it has no attribute named status
StrObject(s) == [str |-> s]

\* ---- the replies of each provider, and its chat primitive ----
Replies(provider) ==
    CASE provider = "cohere" -> CohereReplies
      [] provider = "gemini" -> GeminiReplies
      [] provider = "groq" -> GroqReplies
      [] provider = "openai" -> OpenAIRuns

chat(provider, llm_reply) ==
    CASE provider = "cohere" -> CohereChat(llm_reply)
      [] provider = "gemini" -> GeminiChat(llm_reply)
      [] provider = "groq" -> GroqChat(llm_reply)

(***************************************************************************)
(* The agents: constructor and execute                                     *)
(***************************************************************************)
\* the contents execute is called with
AgentInputs == {Str(<<"q">>), NonStr}

\* what a callable of the tool registry does when it is invoked
ToolResults ==
    { [raised |-> FALSE, out |-> Str(<<"r">>)],
      [raised |-> FALSE, out |-> IntOne],
      [raised |-> TRUE, out |-> NoneContent] }

\* the max_turns values a caller constructs an agent with
TurnArgs == 0..MaxTurns

\* __init__ of the four agents: Task.__init__(name), then the max_turns check
\* a check that lets max_turns = 0 through
MaxTurnsRejectedNegative(max_turns) == max_turns < 0

\* if max_turns <= 0: raise ValueError
MaxTurnsRejected(max_turns) == max_turns <= 0

FunctionAgentInit(provider, name, tools, max_turns) ==
    IF TaskInit(name).err # "none" \/ MaxTurnsRejected(max_turns)
    THEN [state |-> "failed", err |-> "ValueError", provider |-> "none",
          max_turns |-> 0, tool_callables |-> {}]
    ELSE [state |-> "ready", err |-> "none", provider |-> provider,
          max_turns |-> max_turns, tool_callables |-> tools]

AgentConstruct ==
    \E provider \in Providers, name \in CtorNames, tools \in ToolSets, max_turns \in TurnArgs :
        /\ agent.state = "none"
        /\ textgen.state = "none"
        /\ agent' = FunctionAgentInit(provider, name, tools, max_turns)
        /\ UNCHANGED <<pc, turn, taskInput, payload, pending, current, modelLog, toolLog, outcome>>
        /\ UNCHANGED notAgentVars

Returned(task_output) ==
    [kind |-> "return", err |-> "none", reason |-> "none",
     content |-> task_output.content, raw_output |-> task_output.raw_output]
Raised(err, reason) ==
    [kind |-> "raise", err |-> err, reason |-> reason,
     content |-> NonStr, raw_output |-> NoReply]

\* the conversation state execute starts from (for Cohere the tool results;
\* the chat_history Cohere hands back with each reply is passed on as it
\* came and is not kept here)
InitialPayload(provider, content) ==
    CASE provider = "groq" -> <<[role |-> "user", content |-> content]>>
      [] provider = "gemini" -> <<[role |-> "user", parts |-> <<content>>]>>
      [] provider = "cohere" -> <<>>
      [] provider = "openai" -> <<[role |-> "user", content |-> content]>>

\* what one model invocation is given
Sent(provider, content, p) ==
    IF provider = "cohere"
    THEN [message |-> content, tool_results |-> p]
    ELSE [message |-> content, messages |-> p]

\* a check that takes any content for a str
IsInstanceStrAlways(content) == TRUE

\* isinstance(task_input.content, str)
IsInstanceStr(content) == content.isStr

\* execute(TaskInput(content)), up to its first await
ExecuteStart(content) ==
    /\ taskInput' = content
    /\ IF ~IsInstanceStr(content)
       THEN /\ pc' = "done"
            /\ outcome' = Raised("ValueError", "none")
            /\ payload' = payload
       ELSE /\ pc' = (IF agent.provider = "openai" THEN "create_run" ELSE "chat")
            /\ outcome' = outcome
            /\ payload' = InitialPayload(agent.provider, content)
    /\ UNCHANGED <<agent, turn, pending, current, modelLog, toolLog>>

\* a caller calls execute of an agent it constructed
Execute ==
    \E content \in AgentInputs :
        /\ agent.state = "ready"
        /\ pc = "idle"
        /\ ExecuteStart(content)
        /\ UNCHANGED notAgentVars

\* a loop that runs one iteration more
LoopContinuesOneMore(t, max_turns) == t <= max_turns

\* for turn in range(self.max_turns): whether there is a next iteration
LoopContinues(t, max_turns) == t < max_turns

\* an exit test that is the wrong way round
ExitConditionInverted(func_calls) == func_calls # <<>>

\* the exit condition of the loop body: no function calls are required
ExitCondition(func_calls) == func_calls = <<>>

\* the name of a requested call, as the tool loop of each agent reads it
CallName(provider, item) ==
    CASE provider \in {"cohere", "gemini"} -> [err |-> "none", name |-> item.key]
      [] provider = "groq" ->
            IF "name" \in DOMAIN item.val
            THEN [err |-> "none", name |-> item.val.name]
            ELSE [err |-> "AttributeError", name |-> <<>>]
      [] provider = "openai" -> [err |-> "none", name |-> item.function.name]

\* the keyword arguments of a requested call
CallArgs(provider, item) ==
    IF provider = "openai" THEN LoadsOrEmpty(item.function.arguments) ELSE item.val.args

\* the assistant message GroqFunctionAgent appends before it runs the tools
GroqAssistantMessage(func_calls) ==
    [role |-> "assistant",
     tool_calls |-> [i \in 1..Len(func_calls) |->
                        [id |-> func_calls[i].key, type |-> "function",
                         function |-> [name |-> func_calls[i].val.name,
                                       arguments |-> JsonDumps(func_calls[i].val.args)]]]]

\* what each agent adds to its conversation state after a tool returned
ToolRecords(provider, item, name, args, func_output) ==
    CASE provider = "groq" ->
            <<[tool_call_id |-> item.key, role |-> "tool", name |-> name,
               content |-> ToStr(func_output)]>>
      [] provider = "cohere" ->
            <<[call |-> [name |-> name, parameters |-> args],
               outputs |-> <<[answer |-> func_output]>>]>>
      [] provider = "gemini" ->
            <<[role |-> "function", function_call |-> [name |-> name, args |-> args]],
              [role |-> "function",
               function_response |-> [name |-> name, response |-> [result |-> func_output]]]>>
      [] provider = "openai" ->
            <<[tool_call_id |-> item.id, output |-> ToStr(func_output)]>>

\* an iteration that wraps what the chat primitive raises in an exception of
\* its own
ChatWrappingErrors ==
    /\ pc = "chat"
    /\ LoopContinues(turn, agent.max_turns)
    /\ \E llm_reply \in Replies(agent.provider) :
        /\ modelLog' = Append(modelLog, [sent |-> Sent(agent.provider, taskInput, payload),
                                         reply |-> llm_reply])
        /\ LET r == chat(agent.provider, llm_reply)
               func_calls == r.resp.function_calls
           IN  IF r.err # "none"
               THEN /\ pc' = "done"
                    /\ outcome' = Raised("AgentFailedException", r.reason)
                    /\ UNCHANGED <<current, pending, payload>>
               ELSE IF ExitCondition(func_calls)
               THEN /\ pc' = "done"
                    /\ outcome' = Returned(TaskOutput(r.resp.text, r.resp.raw_output))
                    /\ current' = r.resp
                    /\ UNCHANGED <<pending, payload>>
               ELSE IF /\ agent.provider = "groq"
                       /\ \E i \in 1..Len(func_calls) :
                            CallName("groq", func_calls[i]).err # "none"
               THEN /\ pc' = "done"
                    /\ outcome' = Raised("AttributeError", "none")
                    /\ current' = r.resp
                    /\ UNCHANGED <<pending, payload>>
               ELSE /\ pc' = "tools"
                    /\ current' = r.resp
                    /\ pending' = func_calls
                    /\ payload' = (IF agent.provider = "groq"
                                   THEN Append(payload, GroqAssistantMessage(func_calls))
                                   ELSE payload)
                    /\ outcome' = outcome
        /\ UNCHANGED <<agent, turn, taskInput, toolLog>>
        /\ UNCHANGED notAgentVars

\* one iteration of the loop of the Cohere, Gemini and Groq agents, from the
\* call of self._chat.chat to the return, the raise, or the tool loop
Chat ==
    /\ pc = "chat"
    /\ LoopContinues(turn, agent.max_turns)
    /\ \E llm_reply \in Replies(agent.provider) :
        /\ modelLog' = Append(modelLog, [sent |-> Sent(agent.provider, taskInput, payload),
                                         reply |-> llm_reply])
        /\ LET r == chat(agent.provider, llm_reply)
               func_calls == r.resp.function_calls
           IN  IF r.err # "none"
               THEN /\ pc' = "done"
                    /\ outcome' = Raised(r.err, r.reason)
                    /\ UNCHANGED <<current, pending, payload>>
               ELSE IF ExitCondition(func_calls)
               THEN /\ pc' = "done"
                    /\ outcome' = Returned(TaskOutput(r.resp.text, r.resp.raw_output))
                    /\ current' = r.resp
                    /\ UNCHANGED <<pending, payload>>
               ELSE IF /\ agent.provider = "groq"
                       /\ \E i \in 1..Len(func_calls) :
                            CallName("groq", func_calls[i]).err # "none"
               THEN /\ pc' = "done"
                    /\ outcome' = Raised("AttributeError", "none")
                    /\ current' = r.resp
                    /\ UNCHANGED <<pending, payload>>
               ELSE /\ pc' = "tools"
                    /\ current' = r.resp
                    /\ pending' = func_calls
                    /\ payload' = (IF agent.provider = "groq"
                                   THEN Append(payload, GroqAssistantMessage(func_calls))
                                   ELSE payload)
                    /\ outcome' = outcome
        /\ UNCHANGED <<agent, turn, taskInput, toolLog>>
        /\ UNCHANGED notAgentVars

\* a dispatch that swallows what the lookup or the callable raises and goes on
\* to the next requested call
InvokeToolCatching ==
    \E res \in ToolResults :
        /\ pc = "tools"
        /\ pending # <<>>
        /\ LET item == Head(pending)
               name == CallName(agent.provider, item).name
               args == CallArgs(agent.provider, item)
           IN  IF name \notin agent.tool_callables
               THEN /\ pending' = Tail(pending)
                    /\ pc' = (IF Tail(pending) # <<>> THEN "tools"
                              ELSE IF agent.provider = "openai" THEN "submit" ELSE "chat")
                    /\ turn' = (IF Tail(pending) # <<>> \/ agent.provider = "openai"
                                THEN turn ELSE turn + 1)
                    /\ UNCHANGED <<toolLog, payload, outcome>>
               ELSE /\ toolLog' = Append(toolLog, [name |-> name, args |-> args, turn |-> turn,
                                                     raised |-> res.raised, out |-> res.out])
                    /\ IF res.raised
                       THEN /\ pending' = Tail(pending)
                            /\ pc' = (IF Tail(pending) # <<>> THEN "tools"
                                      ELSE IF agent.provider = "openai" THEN "submit"
                                      ELSE "chat")
                            /\ turn' = (IF Tail(pending) # <<>> \/ agent.provider = "openai"
                                        THEN turn ELSE turn + 1)
                            /\ UNCHANGED <<payload, outcome>>
                       ELSE /\ payload' = payload \o ToolRecords(agent.provider, item, name,
                                                                 args, res.out)
                            /\ pending' = Tail(pending)
                            /\ outcome' = outcome
                            /\ IF Tail(pending) # <<>>
                               THEN pc' = "tools" /\ turn' = turn
                               ELSE IF agent.provider = "openai"
                               THEN pc' = "submit" /\ turn' = turn
                               ELSE pc' = "chat" /\ turn' = turn + 1
        /\ UNCHANGED <<agent, taskInput, current, modelLog>>
        /\ UNCHANGED notAgentVars

\* one iteration of the tool loop: self._tool_callables[name](**args)
InvokeTool ==
    \E res \in ToolResults :
        /\ pc = "tools"
        /\ pending # <<>>
        /\ LET item == Head(pending)
               name == CallName(agent.provider, item).name
               args == CallArgs(agent.provider, item)
           IN  IF name \notin agent.tool_callables
               THEN /\ pc' = "done"
                    /\ outcome' = Raised("KeyError", "none")
                    /\ UNCHANGED <<toolLog, payload, pending, turn>>
               ELSE /\ toolLog' = Append(toolLog, [name |-> name, args |-> args, turn |-> turn,
                                                     raised |-> res.raised, out |-> res.out])
                    /\ IF res.raised
                       THEN /\ pc' = "done"
                            /\ outcome' = Raised("ToolError", "none")
                            /\ UNCHANGED <<payload, pending, turn>>
                       ELSE /\ payload' = payload \o ToolRecords(agent.provider, item, name,
                                                                 args, res.out)
                            /\ pending' = Tail(pending)
                            /\ outcome' = outcome
                            /\ IF Tail(pending) # <<>>
                               THEN pc' = "tools" /\ turn' = turn
                               ELSE IF agent.provider = "openai"
                               THEN pc' = "submit" /\ turn' = turn
                               ELSE pc' = "chat" /\ turn' = turn + 1
        /\ UNCHANGED <<agent, taskInput, current, modelLog>>
        /\ UNCHANGED notAgentVars

\* OpenAIFunctionAgent.execute: threads.create, messages.create and
\* runs.create_and_poll, which runs the assistant on the thread
CreateAndPoll ==
    /\ pc = "create_run"
    /\ \E run \in OpenAIRuns :
        /\ modelLog' = Append(modelLog, [sent |-> Sent("openai", taskInput, payload),
                                         reply |-> run])
        /\ current' = run
        /\ pc' = "examine"
        /\ UNCHANGED <<agent, turn, taskInput, payload, pending, toolLog, outcome>>
        /\ UNCHANGED notAgentVars

\* the head of one iteration of the OpenAI loop: messages.list, then the
\* three-way branch on run.status
ExamineRun ==
    /\ pc = "examine"
    /\ LoopContinues(turn, agent.max_turns)
    /\ IF current.status = "completed"
       THEN /\ pc' = "done"
            /\ outcome' = Returned(TaskOutput(AssistantRes(current.message), current))
            /\ UNCHANGED <<pending, payload>>
       ELSE IF current.status = "requires_action"
       THEN /\ pc' = (IF current.tool_calls = <<>> THEN "submit" ELSE "tools")
            /\ pending' = current.tool_calls
            /\ payload' = <<>>
            /\ outcome' = outcome
       ELSE LET fr == failure_reason(StrObject(current.status))
            IN  /\ pc' = "done"
                /\ outcome' = (IF fr.err # "none"
                               THEN Raised(fr.err, "none")
                               ELSE Raised("TextGenFailedException", fr.reason))
                /\ UNCHANGED <<pending, payload>>
    /\ UNCHANGED <<agent, turn, taskInput, current, modelLog, toolLog>>
    /\ UNCHANGED notAgentVars

\* runs.submit_tool_outputs_and_poll, which runs the assistant again, and
\* the `continue` of the loop
SubmitToolOutputs ==
    /\ pc = "submit"
    /\ \E run \in OpenAIRuns :
        /\ modelLog' = Append(modelLog, [sent |-> [message |-> taskInput, tool_outputs |-> payload],
                                         reply |-> run])
        /\ current' = run
        /\ turn' = turn + 1
        /\ pc' = "examine"
        /\ UNCHANGED <<agent, taskInput, payload, pending, toolLog, outcome>>
        /\ UNCHANGED notAgentVars

\* the statement after the loop
RaiseMaxTurns ==
    /\ pc \in {"chat", "examine"}
    /\ ~LoopContinues(turn, agent.max_turns)
    /\ pc' = "done"
    /\ outcome' = Raised("MaxTurnsReachedException", "none")
    /\ UNCHANGED <<agent, turn, taskInput, payload, pending, current, modelLog, toolLog>>
    /\ UNCHANGED notAgentVars

(***************************************************************************)
(* The text-generation tasks: constructor and execute                      *)
(***************************************************************************)
TextGenProviders == {"claude", "cohere", "gemini", "groq", "openai"}

\* the system_prompt option a task is constructed with: absent, blank, given
SystemPrompts == {NoneContent, Str(<<" ">>), Str(<<"S">>)}

\* ---- OpenAI chat completions ----
ChatCompletion(choices) == [kind |-> "openai_chat", choices |-> choices]
ChatCompletions ==
    {ChatCompletion(<<Choice("stop", t, <<>>)>>) : t \in {TextOne, TextTwo}}
    \cup {ChatCompletion(<<Choice("tool_calls", NoneContent, c)>>) : c \in GroqCallLists}
    \cup {ChatCompletion(<<Choice("length", TextOne, <<>>)>>)}

RECURSIVE OpenAIFunctionCalls(_, _)
\* {tool.function.name: FunctionCall(id=tool.id, args=...) for tool in
\* tool_calls}, over the first n
OpenAIFunctionCalls(tool_calls, n) ==
    IF n = 0 THEN <<>>
    ELSE DictSet(OpenAIFunctionCalls(tool_calls, n - 1),
                 tool_calls[n].function.name,
                 FunctionCall([id |-> tool_calls[n].id,
                               args |-> LoadsOrEmpty(tool_calls[n].function.arguments)]).obj)

\* BaseOpenAIChat.chat, from the provider's reply on
OpenAIChat(llm_reply) ==
    LET tc == FirstIndex([i \in 1..Len(llm_reply.choices) |->
                            IsToolCalls(llm_reply.choices[i])])
        st == FirstIndex([i \in 1..Len(llm_reply.choices) |->
                            IsStopChoice(llm_reply.choices[i])])
    IN  IF tc # 0
        THEN LET msg == llm_reply.choices[tc].message
             IN  ChatOk(ChatResponse(msg.content, llm_reply,
                            OpenAIFunctionCalls(msg.tool_calls, Len(msg.tool_calls))))
        ELSE IF st = 0
        THEN ChatRaise("TextGenFailedException", "NO_NATURAL_STOP_POINT")
        ELSE ChatOk(ChatResponse(llm_reply.choices[st].message.content, llm_reply, <<>>))

\* ---- Claude ----
TextBlock(text) == [type |-> "text", text |-> text]
ClaudeMessage(content) == [kind |-> "claude", content |-> content]
ClaudeMessages ==
    { ClaudeMessage(<<TextBlock(TextOne)>>),
      ClaudeMessage(<<TextBlock(TextOne), TextBlock(TextTwo)>>),
      ClaudeMessage(<<>>) }

\* ClaudeTextGenTask.execute, from the provider's reply on:
\* llm_reply.content[0].text
ClaudeFirstText(llm_reply) ==
    IF llm_reply.content = <<>>
    THEN ChatRaise("IndexError", "none")
    ELSE ChatOk(ChatResponse(llm_reply.content[1].text, llm_reply, <<>>))

\* the replies a provider gives a request that offers it no tools
PlainReplies(provider) ==
    CASE provider = "cohere" -> {r \in CohereReplies : r.tool_calls = <<>>}
      [] provider = "gemini" ->
            {r \in GeminiReplies :
                \A i \in 1..Len(r.candidates) :
                    \A k \in 1..Len(r.candidates[i].parts) :
                        ~HasFunctionCall(r.candidates[i].parts[k])}
      [] provider = "groq" ->
            {r \in GroqReplies : \A i \in 1..Len(r.choices) : ~IsToolCalls(r.choices[i])}
      [] provider = "openai" ->
            {r \in ChatCompletions : \A i \in 1..Len(r.choices) : ~IsToolCalls(r.choices[i])}
      [] provider = "claude" -> ClaudeMessages

\* (self.llm_options.get("system_prompt") or "").strip()
SysPrompt(system_prompt) == IF system_prompt.isStr THEN Strip(system_prompt.v) ELSE <<>>

\* the messages BaseGroqChat.chat and BaseOpenAIChat.chat send: the system
\* prompt of the options is appended when the payload has no system message
WithSystemPrompt(messages_payload, system_prompt) ==
    IF SysPrompt(system_prompt) # <<>>
       /\ \A i \in 1..Len(messages_payload) : messages_payload[i].role # "system"
    THEN Append(messages_payload, [role |-> "system", content |-> Str(SysPrompt(system_prompt))])
    ELSE messages_payload

\* _chat_options_dict of options/cohere.py: system_prompt becomes preamble
CoherePreamble(system_prompt) ==
    IF system_prompt.isStr /\ system_prompt.v # <<>> THEN system_prompt ELSE NoneContent

\* what the provider is called with by the execute of a text-generation task
TextGenRequest(provider, system_prompt, content) ==
    CASE provider = "cohere" ->
            [message |-> content, preamble |-> CoherePreamble(system_prompt)]
      [] provider = "gemini" ->
            [contents |-> <<[role |-> "user", parts |-> <<content>>]>>]
      [] provider = "groq" ->
            [messages |-> WithSystemPrompt(<<[role |-> "user", content |-> content]>>,
                                           system_prompt)]
      [] provider = "openai" ->
            [messages |-> WithSystemPrompt(<<[role |-> "user", content |-> content]>>,
                                           system_prompt)]
      [] provider = "claude" ->
            [messages |-> <<[role |-> "user", content |-> content]>>]

\* what execute makes of the provider's reply
TextGenReply(provider, llm_reply) ==
    CASE provider = "claude" -> ClaudeFirstText(llm_reply)
      [] provider = "openai" -> OpenAIChat(llm_reply)
      [] OTHER -> chat(provider, llm_reply)

\* __init__ of the five tasks: Task.__init__(name), then the client and the
\* options are kept
TextGenTaskInit(provider, name, system_prompt) ==
    IF TaskInit(name).err # "none"
    THEN [textgen EXCEPT !.state = "failed"]
    ELSE [textgen EXCEPT !.state = "ready", !.provider = provider,
                         !.system_prompt = system_prompt]

TextGenConstruct ==
    \E provider \in TextGenProviders, name \in CtorNames, system_prompt \in SystemPrompts :
        /\ textgen.state = "none"
        /\ agent.state = "none"
        /\ textgen' = TextGenTaskInit(provider, name, system_prompt)
        /\ UNCHANGED notTextGenVars

\* execute of a text-generation task, up to its await
TextGenExecute ==
    \E content \in AgentInputs :
        /\ textgen.state = "ready"
        /\ textgen.pc = "idle"
        /\ textgen' =
              IF ~IsInstanceStr(content)
              THEN [textgen EXCEPT !.input = content, !.pc = "done",
                                   !.outcome = Raised("ValueError", "none")]
              ELSE [textgen EXCEPT !.input = content, !.pc = "chat"]
        /\ UNCHANGED notTextGenVars

\* the provider call of execute and what follows it
TextGenChat ==
    /\ textgen.pc = "chat"
    /\ \E llm_reply \in PlainReplies(textgen.provider) :
          LET r == TextGenReply(textgen.provider, llm_reply)
              call == [request |-> TextGenRequest(textgen.provider, textgen.system_prompt,
                                                  textgen.input),
                       reply |-> llm_reply]
          IN  textgen' =
                [textgen EXCEPT
                    !.calls = Append(@, call),
                    !.pc = "done",
                    !.outcome = IF r.err # "none"
                                THEN Raised(r.err, r.reason)
                                ELSE Returned(TaskOutput(r.resp.text, r.resp.raw_output))]
    /\ UNCHANGED notTextGenVars

AgentNext ==
    \/ AgentConstruct
    \/ Execute
    \/ Chat
    \/ InvokeTool
    \/ CreateAndPoll
    \/ ExamineRun
    \/ SubmitToolOutputs
    \/ RaiseMaxTurns
    \/ TextGenConstruct
    \/ TextGenExecute
    \/ TextGenChat

\* no agent constructed yet, and no job or resolver call under study
AgentSpecInit == AgentInit /\ TextGenInit /\ JobInit /\ ResIdle /\ MemInit /\ RerankInit

SpecAgent == AgentSpecInit /\ [][AgentNext]_vars

\* the same, where a coroutine that can take a step takes one: every model
\* call and every tool call returns
SpecAgentFair == SpecAgent /\ WF_vars(AgentNext)

(***************************************************************************)
(* An agent as the only task of a SequentialJob                            *)
(***************************************************************************)
\* the agent as the Task object the job holds
AgentTask == TaskInit(NameA).obj

\* job.add_task(agent, "{{root}}")
AgentJobAddTask ==
    /\ agent.state = "ready"
    /\ tasks[1] = <<>>
    /\ JobKind[1] = "seq"
    /\ add_task(1, AgentTask, RootPlaceholder)

\* job.run(user_input), once
AgentJobRun ==
    \E user_input \in AgentInputs :
        /\ tasks[1] # <<>>
        /\ nRuns = 0
        /\ pc = "idle"
        /\ RunCall(1, user_input)

\* _JobTask.execute up to the await inside the agent's execute
AgentJobTaskBegin ==
    /\ runJob = 1
    /\ running
    /\ SeqNext # 0
    /\ co[SeqNext].st = "new"
    /\ ExecuteBegin(SeqNext)
    /\ LET e == ExecuteBeginError(tasks[runJob][SeqNext], userInput, memory[runJob])
           ti == ExecuteTaskInput(tasks[runJob][SeqNext], userInput, memory[runJob])
       IN  /\ running' = (e = "none")
           /\ result' = (IF e = "none" THEN "none" ELSE e)
           /\ last' = [op |-> "step", job |-> runJob, err |-> e]
           /\ IF e = "none" THEN ExecuteStart(ti) ELSE UNCHANGED agentVars
    /\ UNCHANGED <<tasks, runJob, userInput, memStart, nAdds, nRuns>>
    /\ UNCHANGED <<resVars, textgen, memVars, reranker>>

\* the agent's execute has ended: the rest of _JobTask.execute and of run
AgentJobTaskEnd ==
    /\ runJob = 1
    /\ running
    /\ SeqNext # 0
    /\ co[SeqNext].st = "awaiting"
    /\ pc = "done"
    /\ ExecuteEnd(SeqNext, outcome.kind = "raise", outcome.content)
    /\ running' = FALSE
    /\ result' = (IF outcome.kind = "raise" THEN outcome.err ELSE "ok")
    /\ last' = [op |-> "step", job |-> runJob,
                err |-> IF outcome.kind = "raise" THEN outcome.err ELSE "none"]
    /\ UNCHANGED <<tasks, runJob, userInput, memStart, nAdds, nRuns>>
    /\ UNCHANGED notJobVars

AgentJobNext ==
    \/ AgentConstruct
    \/ AgentJobAddTask
    \/ AgentJobRun
    \/ AgentJobTaskBegin
    \/ Chat
    \/ InvokeTool
    \/ CreateAndPoll
    \/ ExamineRun
    \/ SubmitToolOutputs
    \/ RaiseMaxTurns
    \/ AgentJobTaskEnd

SpecAgentJob == AgentSpecInit /\ [][AgentJobNext]_vars

(***************************************************************************)
(* Properties of the job runner                                            *)
(***************************************************************************)
\* the names of the Task objects held in a task list, in list order
RECURSIVE TaskNameSeq(_)
TaskNameSeq(jobTasks) ==
    IF jobTasks = <<>> THEN <<>>
    ELSE (IF Head(jobTasks).task.isTask THEN <<Head(jobTasks).task.name>> ELSE <<>>)
         \o TaskNameSeq(Tail(jobTasks))

NamesUpTo(jobTasks, n) == {jobTasks[k].task.name : k \in 1..n}

RECURSIVE Replay(_, _, _, _)
\* the memory obtained from mem by the writes of the coroutines 1..n
Replay(mem, jobTasks, c, n) ==
    IF n = 0 THEN mem
    ELSE add_task_output(
            add_task_input(Replay(mem, jobTasks, c, n - 1),
                           jobTasks[n].task.name, c[n].input),
            jobTasks[n].task.name, c[n].output)

\* C1: in every reachable state of a job, after any sequence of add_task
\* calls (the rejected ones included), the names of the tasks held in the
\* job's task list are non-empty and pairwise distinct.
C1_TaskNamesUnique ==
    \A j \in Jobs :
        LET names == TaskNameSeq(tasks[j])
        IN  /\ \A i \in 1..Len(names) : names[i] # <<>>
            /\ \A i, k \in 1..Len(names) : i # k => names[i] # names[k]

SeqRunning == runJob # 0 /\ JobKind[runJob] = "seq"

\* tasks run one at a time and in registration order
SeqOrder ==
    /\ Cardinality({i \in 1..Len(co) : co[i].st = "awaiting"}) <= 1
    /\ \A i \in 1..Len(co) :
          co[i].st # "new" => \A k \in 1..(i - 1) : co[k].st = "done"

\* C2 as stated: in every call of SequentialJob.run the tasks are executed
\* one at a time in registration order and the N-th task's input is
\* resolved from the memory produced by the tasks 1..N-1 of that run alone,
\* which holds no entry of a task at the same or a later position.
C2_ResolvedFromThisRunOnly ==
    SeqRunning =>
        /\ SeqOrder
        /\ \A i \in 1..Len(co) :
              co[i].st # "new" =>
                  /\ co[i].memAt = Replay(JobMemory, tasks[runJob], co, i - 1)
                  /\ Keys(co[i].memAt.inputs) \cup Keys(co[i].memAt.outputs)
                        \subseteq NamesUpTo(tasks[runJob], i - 1)

\* C2 as amended: in every call of SequentialJob.run the tasks are executed
\* one at a time in registration order and the N-th task's input is
\* resolved from the memory as it stood when run was called, updated by the
\* writes of the tasks 1..N-1 of that run; when the memory was empty at the
\* call it holds no entry of a task at the same or a later position.
C2_ResolvedFromPriorTasks ==
    SeqRunning =>
        /\ SeqOrder
        /\ \A i \in 1..Len(co) :
              co[i].st # "new" =>
                  /\ co[i].memAt = Replay(memStart, tasks[runJob], co, i - 1)
                  /\ memStart = JobMemory =>
                        Keys(co[i].memAt.inputs) \cup Keys(co[i].memAt.outputs)
                            \subseteq NamesUpTo(tasks[runJob], i - 1)

\* a second run of a sequential job has resolved the input of its second
\* task against a memory that kept the entries of the first run
C2_Witness ==
    /\ SeqRunning
    /\ Len(co) >= 2
    /\ co[2].st = "awaiting"
    /\ memStart # JobMemory
    /\ Keys(co[2].memAt.outputs) # {}

\* the job and the object of the add_task call that was just made
AddedTo == last.job
AddedObj == tasks[last.job][Len(tasks[last.job])].task
AddedPre == SubSeq(tasks[last.job], 1, Len(tasks[last.job]) - 1)

\* the names of the tasks whose add_task call returned normally: the call
\* that appended element i saw the list up to i
RegisteredNames(jobTasks) ==
    {jobTasks[i].task.name :
        i \in {k \in 1..Len(jobTasks) :
                AddTaskError(jobTasks[k].task, SubSeq(jobTasks, 1, k)) = "none"}}

\* C3: add_task with a task whose name is already registered in the same
\* job raises ValueError, and registering a name that only another job
\* holds raises nothing.
C3_DuplicateRaisesValueError ==
    (last.op = "add_task" /\ AddedObj.isTask) =>
        /\ AddedObj.name \in RegisteredNames(AddedPre) => last.err = "ValueError"
        /\ (/\ AddedObj.name \notin RegisteredNames(AddedPre)
            /\ \E k \in Jobs \ {AddedTo} : AddedObj.name \in RegisteredNames(tasks[k]))
              => last.err = "none"

\* C3, second half: a call or step on one job leaves the task list and the
\* memory of the other job as they were.
C3_JobsDoNotInterfere ==
    [][\A j \in Jobs : last'.job # j => (tasks'[j] = tasks[j] /\ memory'[j] = memory[j])]_vars

ConcRunning == runJob # 0 /\ JobKind[runJob] = "conc"

\* C10: in a run of a ConcurrentJob with root input Y every task that has
\* been started was passed a TaskInput with content exactly Y, whatever the
\* interleaving, and when run has returned every task's output is the one
\* task_output(name) gives.
C10_EveryTaskGetsRoot ==
    ConcRunning =>
        /\ \A i \in 1..Len(co) :
              co[i].st \in {"awaiting", "done"} => co[i].input = userInput
        /\ result = "ok" =>
              \A i \in 1..Len(co) :
                  get_task_output(memory[runJob], tasks[runJob][i].task.name)
                      = Some(co[i].output)

(***************************************************************************)
(* Properties of the resolver                                              *)
(***************************************************************************)
AllStr(d) == \A i \in 1..Len(d) : d[i].val.isStr

\* the value the placeholder starting s stands for, if one does
PlaceholderAt(s, root, mem) ==
    IF StartsWith(s, RootPlaceholder)
    THEN [found |-> TRUE, len |-> Len(RootPlaceholder), by |-> root.v]
    ELSE IF \E i \in 1..Len(mem.inputs) : StartsWith(s, InputPlaceholder(mem.inputs[i].key))
    THEN LET i == CHOOSE i \in 1..Len(mem.inputs) :
                    StartsWith(s, InputPlaceholder(mem.inputs[i].key))
         IN  [found |-> TRUE, len |-> Len(InputPlaceholder(mem.inputs[i].key)),
              by |-> mem.inputs[i].val.v]
    ELSE IF \E i \in 1..Len(mem.outputs) : StartsWith(s, OutputPlaceholder(mem.outputs[i].key))
    THEN LET i == CHOOSE i \in 1..Len(mem.outputs) :
                    StartsWith(s, OutputPlaceholder(mem.outputs[i].key))
         IN  [found |-> TRUE, len |-> Len(OutputPlaceholder(mem.outputs[i].key)),
              by |-> mem.outputs[i].val.v]
    ELSE [found |-> FALSE, len |-> 0, by |-> <<>>]

RECURSIVE Substituted(_, _, _)
\* the template with each placeholder occurrence replaced by its value and
\* every other character kept
Substituted(s, root, mem) ==
    IF s = <<>> THEN <<>>
    ELSE LET p == PlaceholderAt(s, root, mem)
         IN  IF p.found
             THEN p.by \o Substituted(SubSeq(s, p.len + 1, Len(s)), root, mem)
             ELSE <<Head(s)>> \o Substituted(Tail(s), root, mem)

\* C4: for a root input and a memory with str contents, the resolved input
\* is the template with every occurrence of {{root}}, {{a.input}} and
\* {{a.output}} of a recorded task a replaced by its value, and no other
\* character changed.
C4_ResolvedIsSubstitutedTemplate ==
    (/\ resResult.st = "done"
     /\ resUserInput.isStr
     /\ AllStr(resMemory.inputs)
     /\ AllStr(resMemory.outputs))
        => /\ resResult.err = "none"
           /\ resResult.val = Substituted(resTemplate, resUserInput, resMemory)


(***************************************************************************)
(* Properties of the agents                                                *)
(***************************************************************************)
\* the provider replies obtained so far, in order
ReplyAt(i) == modelLog[i].reply
LastReply == ReplyAt(Len(modelLog))

\* a reply that is a completed, plain-text answer of the provider
TerminalText(reply) ==
    CASE reply.kind = "cohere" -> reply.finish_reason = "COMPLETE" /\ reply.tool_calls = <<>>
      [] reply.kind = "gemini" ->
            /\ reply.block_reason = "BLOCK_REASON_UNSPECIFIED"
            /\ \E c \in 1..Len(reply.candidates) :
                /\ reply.candidates[c].finish_reason = "STOP"
                /\ \A k \in 1..(c - 1) : reply.candidates[k].finish_reason # "STOP"
                /\ \A p \in 1..Len(reply.candidates[c].parts) :
                        reply.candidates[c].parts[p].kind = "text"
                /\ reply.candidates[c].parts # <<>>
      [] reply.kind = "groq" ->
            /\ \A c \in 1..Len(reply.choices) : reply.choices[c].finish_reason # "tool_calls"
            /\ \E c \in 1..Len(reply.choices) : reply.choices[c].finish_reason = "stop"
      [] reply.kind = "openai" -> reply.status = "completed"

\* the text of such an answer
ReplyText(reply) ==
    CASE reply.kind = "cohere" -> reply.text
      [] reply.kind = "gemini" ->
            LET c == CHOOSE c \in 1..Len(reply.candidates) :
                        /\ reply.candidates[c].finish_reason = "STOP"
                        /\ \A k \in 1..(c - 1) : reply.candidates[k].finish_reason # "STOP"
            IN  reply.candidates[c].parts[1].text
      [] reply.kind = "groq" ->
            LET c == CHOOSE c \in 1..Len(reply.choices) :
                        /\ reply.choices[c].finish_reason = "stop"
                        /\ \A k \in 1..(c - 1) : reply.choices[k].finish_reason # "stop"
            IN  reply.choices[c].message.content
      [] reply.kind = "openai" ->
            IF \E i \in 1..Len(reply.message) : reply.message[i].type = "text"
            THEN reply.message[CHOOSE i \in 1..Len(reply.message) :
                                /\ reply.message[i].type = "text"
                                /\ \A k \in 1..(i - 1) : reply.message[k].type # "text"].value
            ELSE NoneContent

\* the tool calls a reply asks for, as <<name, arguments>> pairs
RequestedCalls(reply) ==
    CASE reply.kind = "cohere" ->
            IF reply.finish_reason # "COMPLETE" THEN <<>>
            ELSE [i \in 1..Len(reply.tool_calls) |->
                    <<reply.tool_calls[i].name,
                      IF reply.tool_calls[i].parameters.isNone THEN <<>>
                      ELSE reply.tool_calls[i].parameters.d>>]
      [] reply.kind = "gemini" ->
            IF reply.block_reason # "BLOCK_REASON_UNSPECIFIED"
               \/ \A c \in 1..Len(reply.candidates) : reply.candidates[c].finish_reason # "STOP"
            THEN <<>>
            ELSE LET c == CHOOSE c \in 1..Len(reply.candidates) :
                            /\ reply.candidates[c].finish_reason = "STOP"
                            /\ \A k \in 1..(c - 1) : reply.candidates[k].finish_reason # "STOP"
                     calls == SelectSeq(reply.candidates[c].parts,
                                        LAMBDA p : p.kind = "function_call")
                 IN  [i \in 1..Len(calls) |->
                        <<calls[i].name, IF calls[i].args.isNone THEN <<>> ELSE calls[i].args.d>>]
      [] reply.kind = "groq" ->
            IF \A c \in 1..Len(reply.choices) : reply.choices[c].finish_reason # "tool_calls"
            THEN <<>>
            ELSE LET c == CHOOSE c \in 1..Len(reply.choices) :
                            /\ reply.choices[c].finish_reason = "tool_calls"
                            /\ \A k \in 1..(c - 1) : reply.choices[k].finish_reason # "tool_calls"
                     calls == reply.choices[c].message.tool_calls
                 IN  [i \in 1..Len(calls) |->
                        <<calls[i].function.name,
                          IF calls[i].function.arguments \in {"", "{}"} THEN <<>>
                          ELSE IF calls[i].function.arguments = "{\"x\": 1}"
                          THEN <<[key |-> <<"x">>, val |-> 1]>>
                          ELSE <<[key |-> <<"x">>, val |-> 2]>> >>]
      [] reply.kind = "openai" ->
            IF reply.status # "requires_action" THEN <<>>
            ELSE [i \in 1..Len(reply.tool_calls) |->
                    <<reply.tool_calls[i].function.name,
                      IF reply.tool_calls[i].function.arguments \in {"", "{}"} THEN <<>>
                      ELSE IF reply.tool_calls[i].function.arguments = "{\"x\": 1}"
                      THEN <<[key |-> <<"x">>, val |-> 1]>>
                      ELSE <<[key |-> <<"x">>, val |-> 2]>> >>]

\* a reply that asks for tool calls
ToolRequest(reply) == RequestedCalls(reply) # <<>>

\* a reply that asks for exactly one call, of a tool the agent was given
OneRegisteredCall(reply) ==
    /\ Len(RequestedCalls(reply)) = 1
    /\ RequestedCalls(reply)[1][1] \in agent.tool_callables

\* the invocations of the registry's callables so far, as <<name, arguments>>
Invocations == [i \in 1..Len(toolLog) |-> <<toolLog[i].name, toolLog[i].args>>]

\* execute has gone past the reply it obtained last (the OpenAI agent looks
\* at a run only at the head of its next iteration)
Examined == pc # "examine"


\* execute returned the text and the raw reply of the given provider reply
ReturnedReply(reply) ==
    /\ outcome.kind = "return"
    /\ outcome.content = ReplyText(reply)
    /\ outcome.raw_output = reply

\* after a plain-text answer nothing more is invoked
NothingAfterText ==
    (modelLog # <<>> /\ TerminalText(LastReply))
        => (modelLog' = modelLog /\ toolLog' = toolLog)

\* C5 (as stated): in any agent execute, once the model has answered with a
\* plain-text response carrying no tool calls, execute returns a TaskOutput
\* with that response's text and the raw provider response; no model and no
\* tool invocation follows; on the first turn no tool was ever invoked.
C5_FirstTextReturned ==
    /\ []((modelLog # <<>> /\ TerminalText(LastReply) /\ Examined)
            => /\ ReturnedReply(LastReply)
               /\ (Len(modelLog) = 1 => toolLog = <<>>))
    /\ [][NothingAfterText]_vars

\* C5 (amended): the same, except that the OpenAI agent does not look at the
\* run its max_turns-th tool-output submission returned: when that run is a
\* completed answer, execute raises MaxTurnsReachedException instead of
\* returning it.  In every case nothing is invoked after the answer.
C5_FirstTextReturnedWithinBudget ==
    /\ []((modelLog # <<>> /\ TerminalText(LastReply) /\ Examined)
            => IF agent.provider = "openai" /\ Len(modelLog) = agent.max_turns + 1
               THEN outcome = Raised("MaxTurnsReachedException", "none")
               ELSE /\ ReturnedReply(LastReply)
                    /\ (Len(modelLog) = 1 => toolLog = <<>>))
    /\ [][NothingAfterText]_vars

\* a text answer returned on the second turn, after a tool ran on the first
C5_Witness ==
    /\ pc = "done"
    /\ Len(modelLog) = 2
    /\ TerminalText(LastReply)
    /\ ReturnedReply(LastReply)
    /\ toolLog # <<>>
    /\ outcome.content = TextTwo

\* C6: for every provider's agent with max_turns >= 2, when the model's
\* first response requests one registered tool and its second is plain
\* text, execute gets to that second response (it can end earlier only by
\* the tool itself raising), returns its text, and has invoked the tool
\* exactly once with the arguments the model supplied.
C6_ToolThenTextReturnsText ==
    (/\ agent.state = "ready"
     /\ agent.max_turns >= 2
     /\ modelLog # <<>>
     /\ OneRegisteredCall(ReplyAt(1)))
        => /\ (pc = "done" /\ Len(modelLog) = 1) => outcome.err = "ToolError"
           /\ (/\ Len(modelLog) >= 2
               /\ TerminalText(ReplyAt(2))
               /\ ~(Len(modelLog) = 2 /\ ~Examined))
                => /\ Len(modelLog) = 2
                   /\ ReturnedReply(ReplyAt(2))
                   /\ Invocations = RequestedCalls(ReplyAt(1))

\* C7: for every provider's agent with max_turns = 1, when the model's
\* response requests a registered tool, execute makes exactly one model
\* invocation, invokes the tool once, and ends with MaxTurnsReachedException
\* (or with the error the tool itself raised).
C7_OneTurnOneModelCall ==
    (/\ agent.state = "ready"
     /\ agent.max_turns = 1
     /\ modelLog # <<>>
     /\ OneRegisteredCall(ReplyAt(1)))
        => /\ Len(modelLog) = 1
           /\ Len(toolLog) <= 1
           /\ pc = "done" =>
                /\ outcome.err \in {"MaxTurnsReachedException", "ToolError"}
                /\ Invocations = RequestedCalls(ReplyAt(1))

\* C8 (as stated): MaxTurnsReachedException is raised only when max_turns
\* iterations completed and no response obtained in that execute was a
\* completed plain-text answer.
C8_MaxTurnsOnlyWithoutText ==
    outcome.err = "MaxTurnsReachedException"
        => /\ turn = agent.max_turns
           /\ \A i \in 1..Len(modelLog) : ~TerminalText(ReplyAt(i))

\* C8 (amended): MaxTurnsReachedException is raised only when max_turns
\* iterations completed and each of them examined a response that requested
\* tool calls.  The Cohere, Gemini and Groq agents obtained no other
\* response; the OpenAI agent obtained one more, from its last tool-output
\* submission, which it did not examine and which may be a completed answer.
C8_MaxTurnsOnlyAfterToolRequests ==
    outcome.err = "MaxTurnsReachedException"
        => /\ turn = agent.max_turns
           /\ Len(modelLog) = agent.max_turns + (IF agent.provider = "openai" THEN 1 ELSE 0)
           /\ \A i \in 1..agent.max_turns : ToolRequest(ReplyAt(i))

\* turns exhausted after two iterations that each ran a tool
C8_Witness ==
    /\ outcome.err = "MaxTurnsReachedException"
    /\ agent.max_turns = 2
    /\ Len(toolLog) >= 2
    /\ agent.provider = "gemini"

\* the ways an execute ends
TextReturned ==
    /\ outcome.kind = "return"
    /\ modelLog # <<>>
    /\ TerminalText(LastReply)
    /\ outcome.raw_output = LastReply
TurnsExhausted == outcome.kind = "raise" /\ outcome.err = "MaxTurnsReachedException"
ErrorRaised ==
    /\ outcome.kind = "raise"
    /\ outcome.err \in {"ValueError", "TextGenFailedException", "PromptBlockedException",
                        "KeyError", "ToolError", "TypeError", "AttributeError"}
ExactlyOneOutcome ==
    \/ TextReturned /\ ~TurnsExhausted /\ ~ErrorRaised
    \/ ~TextReturned /\ TurnsExhausted /\ ~ErrorRaised
    \/ ~TextReturned /\ ~TurnsExhausted /\ ErrorRaised

\* the model invocations one execute may make
CallBudget == agent.max_turns + (IF agent.provider = "openai" THEN 1 ELSE 0)

\* C9 (as stated): an agent is constructed only with max_turns >= 1; every
\* execute, when each model call and tool call returns, ends in exactly one
\* of text returned, turns exhausted, or an error raised; and one execute
\* never makes more than max_turns model invocations.
C9_AtMostMaxTurnsModelCalls ==
    /\ [](agent.state = "ready" => agent.max_turns >= 1)
    /\ [](Len(modelLog) <= agent.max_turns)
    /\ [](pc = "done" => ExactlyOneOutcome)
    /\ (pc \notin {"idle", "done"}) ~> (pc = "done")

\* C9 (amended): the same, with the bound on model invocations max_turns for
\* the Cohere, Gemini and Groq agents and max_turns + 1 for the OpenAI agent
\* (create_and_poll, then one submit_tool_outputs_and_poll per iteration).
C9_BoundedModelCalls ==
    /\ [](agent.state = "ready" => agent.max_turns >= 1)
    /\ [](Len(modelLog) <= CallBudget)
    /\ [](pc = "done" => ExactlyOneOutcome)
    /\ (pc \notin {"idle", "done"}) ~> (pc = "done")

\* an OpenAI execute that used its whole budget: max_turns + 1 runs
C9_Witness ==
    /\ pc = "done"
    /\ agent.provider = "openai"
    /\ agent.max_turns = 2
    /\ Len(modelLog) = 3
    /\ TurnsExhausted


(***************************************************************************)
(* Further properties of the job runner                                    *)
(***************************************************************************)
\* the latest run is one of a ConcurrentJob
ConcLatest == runJob # 0 /\ JobKind[runJob] = "conc"

\* the output Memory holds for task i of the latest run is the output some
\* task of that name returned in this run
OutputWritten(i) ==
    LET name == tasks[runJob][i].task.name
        outs == memory[runJob].outputs
    IN  /\ name \in Keys(outs)
        /\ \E k \in 1..Len(co) :
            /\ tasks[runJob][k].task.name = name
            /\ co[k].st = "done"
            /\ outs[DictGet(outs, name)].val = co[k].output

\* C11: ConcurrentJob.run creates the execute coroutine of every registered
\* task at the call and the coroutines are started in registration order,
\* none waiting for another to complete (fan-out); run returns normally
\* only when every registered task's execute has completed and its output
\* is in Memory (fan-in).
C11_FanOutFanIn ==
    ConcLatest
        => /\ ~Settled(co) => Len(co) = Len(tasks[runJob])
           /\ \A i \in 1..Len(co) :
                co[i].st # "new" => \A k \in 1..(i - 1) : co[k].st # "new"
           /\ running => \E i \in 1..Len(co) : co[i].st \in {"new", "awaiting"}
           /\ result = "ok" =>
                \A i \in 1..Len(co) : co[i].st = "done" /\ OutputWritten(i)

\* two tasks of one run in flight at the same time
C11_Witness ==
    /\ ConcLatest
    /\ Len(co) = 2
    /\ \A i \in 1..Len(co) : co[i].st = "awaiting"
    /\ result = "none"


\* the latest run is one of a SequentialJob
SeqLatest == runJob # 0 /\ JobKind[runJob] = "seq"

\* the latest run ended because the execute of a task raised
TaskRaised == result = "TaskError"

\* the task whose execute raised
Failing == CHOOSE i \in 1..Len(co) : co[i].st = "raised"

\* what is common to both statements of C13: run has raised, exactly one
\* task failed, those before it completed, none after it was started
RaisedAtOnce ==
    /\ ~running
    /\ \E i \in 1..Len(co) : co[i].st = "raised"
    /\ \A i \in 1..Len(co) :
        /\ i < Failing => co[i].st = "done"
        /\ i > Failing => co[i].st = "new"

\* C13 (as stated): when a task's execute raises during SequentialJob.run,
\* run raises at once, no later task is executed, and Memory holds the
\* input and output of every task before the failing one, the resolved
\* input of the failing task, no output for the failing task and no entry
\* for any later task.
C13_FailureLeavesOnlyEarlierEntries ==
    (SeqLatest /\ TaskRaised)
        => /\ RaisedAtOnce
           /\ LET mem == memory[runJob]
                  name(i) == tasks[runJob][i].task.name
              IN  /\ \A i \in 1..(Failing - 1) :
                        /\ get_task_input(mem, name(i)) = Some(co[i].input)
                        /\ get_task_output(mem, name(i)) = Some(co[i].output)
                  /\ get_task_input(mem, name(Failing)) = Some(co[Failing].input)
                  /\ get_task_output(mem, name(Failing)) = None
                  /\ \A i \in (Failing + 1)..Len(co) :
                        /\ get_task_input(mem, name(i)) = None
                        /\ get_task_output(mem, name(i)) = None

\* C13 (amended): when a task's execute raises during SequentialJob.run,
\* run raises at once, no later task is executed, and Memory is what it was
\* when run was called, updated by the inputs and outputs of the tasks
\* before the failing one and by the resolved input of the failing task:
\* nothing is rolled back and nothing else is written.
C13_FailureKeepsWritesSoFar ==
    (SeqLatest /\ TaskRaised)
        => /\ RaisedAtOnce
           /\ memory[runJob] =
                add_task_input(Replay(memStart, tasks[runJob], co, Failing - 1),
                               tasks[runJob][Failing].task.name, co[Failing].input)

\* the second of three tasks failed
C13_Witness ==
    /\ SeqLatest
    /\ TaskRaised
    /\ Len(co) = 3
    /\ Failing = 2

(***************************************************************************)
(* Further properties of the agents                                        *)
(***************************************************************************)
\* the invocations made in iteration t of the loop, as <<name, arguments>>
TurnInvocations(t) ==
    LET calls == SelectSeq(toolLog, LAMBDA c : c.turn = t)
    IN  [i \in 1..Len(calls) |-> <<calls[i].name, calls[i].args>>]

IsPrefix(a, b) == Len(a) <= Len(b) /\ \A i \in 1..Len(a) : a[i] = b[i]

\* iteration t of the loop ran its tool loop to the end
TurnCompleted(t) == turn > t \/ (turn = t /\ pc = "submit")

\* C12: in every turn in which the model requests tool calls, the calls are
\* executed one after the other in the order the provider listed them, each
\* at most once, and when the turn has run to its end every requested call
\* has been executed exactly once; this includes several calls in one
\* response and two calls of the same tool.
C12_EveryRequestedCallOnceInOrder ==
    \A i \in 1..Len(modelLog) :
        ToolRequest(ReplyAt(i))
            => /\ IsPrefix(TurnInvocations(i - 1), RequestedCalls(ReplyAt(i)))
               /\ TurnCompleted(i - 1)
                    => TurnInvocations(i - 1) = RequestedCalls(ReplyAt(i))

\* C14: when the execute of an agent or of a text-generation task is called
\* with a content that is not a str, it has raised ValueError by the time it
\* first gives up control, and no model, thread, run or chat call was made:
\* nothing was sent to the provider and no conversation state was built.
C14_NonStrContentRaisesBeforeProvider ==
    /\ (pc # "idle" /\ ~taskInput.isStr)
          => /\ pc = "done"
             /\ outcome = Raised("ValueError", "none")
             /\ modelLog = <<>>
             /\ toolLog = <<>>
             /\ payload = <<>>
             /\ turn = 0
    /\ (textgen.pc # "idle" /\ ~textgen.input.isStr)
          => /\ textgen.pc = "done"
             /\ textgen.outcome = Raised("ValueError", "none")
             /\ textgen.calls = <<>>

\* an OpenAI agent whose execute was called with a content that is not a str
C14_Witness ==
    /\ agent.provider = "openai"
    /\ pc = "done"
    /\ ~taskInput.isStr
    /\ outcome.err = "ValueError"

\* the next requested call names a tool that is not in the registry
UnregisteredNext ==
    /\ pc = "tools"
    /\ pending # <<>>
    /\ CallName(agent.provider, Head(pending)).name \notin agent.tool_callables
\* this step invoked a callable and the callable raised
CallableRaisedNow == Len(toolLog') = Len(toolLog) + 1 /\ toolLog'[Len(toolLog')].raised
\* execute has ended with what a tool dispatch raised
DispatchRaised == outcome.kind = "raise" /\ outcome.err \in {"KeyError", "ToolError"}

\* C15: what the dispatch of a requested tool call raises (the KeyError of a
\* name that is not in the registry, or what the callable raises) is raised by
\* execute as it is, in the very step of the dispatch; after it no callable
\* is invoked and no model invocation is made.
C15_DispatchErrorPropagates ==
    [][ /\ UnregisteredNext
            => /\ pc' = "done"
               /\ outcome' = Raised("KeyError", "none")
               /\ toolLog' = toolLog
               /\ modelLog' = modelLog
        /\ CallableRaisedNow
            => /\ pc' = "done"
               /\ outcome' = Raised("ToolError", "none")
               /\ modelLog' = modelLog
        /\ DispatchRaised
            => /\ outcome' = outcome
               /\ toolLog' = toolLog
               /\ modelLog' = modelLog ]_vars

\* a callable raised while a second requested call of the turn was waiting
C15_Witness ==
    /\ DispatchRaised
    /\ outcome.err = "ToolError"
    /\ Len(pending) = 2
    /\ toolLog[Len(toolLog)].raised

\* the exceptions a chat primitive raises when the provider gives no text
ChatFailures == {"TextGenFailedException", "PromptBlockedException"}
\* this step is a model invocation on which the chat primitive raises
ChatFailsNow ==
    /\ agent.provider \in {"cohere", "gemini", "groq"}
    /\ Len(modelLog') = Len(modelLog) + 1
    /\ chat(agent.provider, modelLog'[Len(modelLog')].reply).err \in ChatFailures
\* execute has ended with what the chat primitive raised
ChatFailed ==
    /\ agent.provider \in {"cohere", "gemini", "groq"}
    /\ outcome.kind = "raise"
    /\ outcome.err \in ChatFailures

\* C16: when the chat primitive raises TextGenFailedException or
\* PromptBlockedException on turn t, execute raises that exception, with its
\* failure reason, in the same step, the model having been invoked t times;
\* no model invocation and no tool invocation follows, and the run of the job
\* that holds the agent as a task ends raising that exception.
C16_ChatFailurePropagates ==
    [][ /\ ChatFailsNow
            => LET r == chat(agent.provider, modelLog'[Len(modelLog')].reply)
               IN  /\ pc' = "done"
                   /\ outcome' = Raised(r.err, r.reason)
                   /\ Len(modelLog') = turn + 1
                   /\ toolLog' = toolLog
        /\ ChatFailed
            => /\ outcome' = outcome
               /\ modelLog' = modelLog
               /\ toolLog' = toolLog
               /\ (runJob = 1 /\ ~running') => result' = outcome.err ]_vars

\* the chat primitive raised on the second turn, after a tool call, and the
\* run of the job has ended
C16_Witness ==
    /\ ChatFailed
    /\ Len(modelLog) = 2
    /\ toolLog # <<>>
    /\ runJob = 1
    /\ ~running
    /\ result = outcome.err

\* the failure reasons of OpenAIFunctionAgent
OpenAIFailureReasons ==
    {"OPENAI__RUN_CANCELLED", "OPENAI__RUN_FAILED", "INVALID_PROMPT", "RATE_LIMIT_EXCEEDED",
     "SERVER_ERROR", "OPENAI__RUN_EXPIRED", "OPENAI__UNKNOWN_ERR"}
\* the loop of the OpenAI agent is about to examine a run that has neither
\* completed nor asked for tool calls
RunErrored ==
    /\ agent.provider = "openai"
    /\ pc = "examine"
    /\ LoopContinues(turn, agent.max_turns)
    /\ current.status \notin {"completed", "requires_action"}

\* C17: when the run the OpenAI agent examines is neither completed nor
\* requires_action, execute raises TextGenFailedException whose failure
\* reason is the one of the seven that the run's status and last_error code
\* select.
C17_RunErrorRaisesTextGenFailed ==
    [][ RunErrored
            => /\ pc' = "done"
               /\ outcome' = Raised("TextGenFailedException", failure_reason(current).reason)
               /\ outcome'.reason \in OpenAIFailureReasons ]_vars

\* old occurs in s
Occurs(old, s) == \E k \in 1..(Len(s) - Len(old) + 1) : SubSeq(s, k, k + Len(old) - 1) = old
\* the placeholders of template that name a task with no entry in the
\* mapping of mem they refer to
Unresolved(template, mem) ==
    {InputPlaceholder(t.name) : t \in {u \in Tasks :
        Occurs(InputPlaceholder(u.name), template) /\ u.name \notin Keys(mem.inputs)}}
    \cup {OutputPlaceholder(t.name) : t \in {u \in Tasks :
        Occurs(OutputPlaceholder(u.name), template) /\ u.name \notin Keys(mem.outputs)}}
\* a character no template, root input or content holds
Marker == <<"#">>

ResultRecords(sent) ==
    CASE agent.provider = "groq" ->
            LET ms == SelectSeq(sent.messages, LAMBDA m : m.role = "tool")
            IN  [j \in 1..Len(ms) |-> [value |-> ms[j].content, id |-> ms[j].tool_call_id]]
      [] agent.provider = "cohere" ->
            [j \in 1..Len(sent.tool_results) |->
                [value |-> sent.tool_results[j].outputs[1].answer, id |-> "None"]]
      [] agent.provider = "gemini" ->
            LET ms == SelectSeq(sent.messages, LAMBDA m : "function_response" \in DOMAIN m)
            IN  [j \in 1..Len(ms) |->
                    [value |-> ms[j].function_response.response.result, id |-> "None"]]
      [] agent.provider = "openai" ->
            IF "tool_outputs" \in DOMAIN sent
            THEN [j \in 1..Len(sent.tool_outputs) |->
                    [value |-> sent.tool_outputs[j].output,
                     id |-> sent.tool_outputs[j].tool_call_id]]
            ELSE <<>>
\* the records the i-th model invocation was given that the one before it was
\* not (the OpenAI agent submits the records of one turn only)
NewRecords(i) ==
    LET now == ResultRecords(modelLog[i].sent)
        before == ResultRecords(modelLog[i - 1].sent)
    IN  IF agent.provider = "openai" THEN now
        ELSE SubSeq(now, Len(before) + 1, Len(now))
\* the ids of the tool calls a reply asks for, where the provider gives ids
RequestedIds(reply) ==
    CASE reply.kind = "groq" ->
            LET c == CHOOSE c \in 1..Len(reply.choices) :
                        /\ reply.choices[c].finish_reason = "tool_calls"
                        /\ \A k \in 1..(c - 1) : reply.choices[k].finish_reason # "tool_calls"
            IN  [j \in 1..Len(reply.choices[c].message.tool_calls) |->
                    reply.choices[c].message.tool_calls[j].id]
      [] reply.kind = "openai" -> [j \in 1..Len(reply.tool_calls) |-> reply.tool_calls[j].id]
      [] OTHER -> [j \in 1..Len(RequestedCalls(reply)) |-> "None"]
\* the invocations of callables made in turn t
TurnExecuted(t) == SelectSeq(toolLog, LAMBDA c : c.turn = t)

\* C20: a model invocation that follows a turn in which the model requested k
\* tool calls is given k new tool-result records, the j-th holding str() of
\* what the j-th executed call of the turn returned and, for Groq and OpenAI,
\* the id of the j-th requested call.
C20_ToolResultsGivenToNextInvocation ==
    \A i \in 2..Len(modelLog) :
        LET req == RequestedCalls(ReplyAt(i - 1))
            ex == TurnExecuted(i - 2)
            new == NewRecords(i)
        IN  /\ Len(new) = Len(req)
            /\ Len(ex) = Len(req)
            /\ \A j \in 1..Len(new) :
                  /\ j <= Len(ex) => new[j].value = ToStr(ex[j].out)
                  /\ new[j].id = RequestedIds(ReplyAt(i - 1))[j]

(***************************************************************************)
(* Properties of JobMemory                                                 *)
(***************************************************************************)
\* the add calls of method op for key, in call order
AddsOf(op, key) == SelectSeq(memLog, LAMBDA c : c.op = op /\ c.key = key)
\* what a get for key has to return after the add calls of method op so far
LatestAdd(op, key) ==
    IF AddsOf(op, key) = <<>> THEN None
    ELSE Some(AddsOf(op, key)[Len(AddsOf(op, key))].content)
\* what the latest call returned is right
GotRight ==
    /\ memGot.op = "get_task_input" => memGot.val = LatestAdd("add_task_input", memGot.key)
    /\ memGot.op = "get_task_output" => memGot.val = LatestAdd("add_task_output", memGot.key)
    /\ memGot.op \in {"add_task_input", "add_task_output"} => memGot.val = None

\* the keys the add calls of method op were made with
AddedKeys(op) == {memLog[i].key : i \in {k \in 1..Len(memLog) : memLog[k].op = op}}

ChatResponded ==
    /\ agent.provider \in {"cohere", "gemini", "groq"}
    /\ "function_calls" \in DOMAIN current

\* C21: in every ChatResponse a chat primitive returns, text is None exactly
\* when function_calls is not empty.
C21_TextNoneIffFunctionCalls ==
    ChatResponded => (current.text = NoneContent <=> current.function_calls # <<>>)

(***************************************************************************)
(* Properties of the resolver inside a job                                 *)
(***************************************************************************)
\* template holds the placeholder of an entry of m whose content is not a
\* str
RefersToNonStr(template, m) ==
    \/ \E k \in 1..Len(m.inputs) :
          ~m.inputs[k].val.isStr /\ Occurs(InputPlaceholder(m.inputs[k].key), template)
    \/ \E k \in 1..Len(m.outputs) :
          ~m.outputs[k].val.isStr /\ Occurs(OutputPlaceholder(m.outputs[k].key), template)

\* C22: when the template of a task holds the placeholder of a Memory entry
\* whose content is not a str, _JobTask.execute raises TypeError while it
\* resolves the template: the task's execute is never called, no input is
\* recorded for it, and a SequentialJob's run ends with that error, Memory
\* being as it was when the task was reached.
C22_NonStrContentRaisesAtSubstitution ==
    \A i \in 1..Len(co) :
        (co[i].st # "new" /\ RefersToNonStr(tasks[runJob][i].input_template, co[i].memAt))
            => /\ co[i].st = "raised"
               /\ co[i].input = NonStr
               /\ ExecuteBeginError(tasks[runJob][i], userInput, co[i].memAt) = "TypeError"
               /\ SeqLatest => /\ result = "TypeError"
                               /\ ~running
                               /\ memory[runJob] = co[i].memAt

\* the first task of a SequentialJob returned a content that is not a str and
\* the second task, whose template holds the first one's output placeholder,
\* was reached
C22_Witness ==
    /\ SeqLatest
    /\ Len(co) = 2
    /\ userInput.isStr
    /\ co[1].st = "done"
    /\ ~co[1].output.isStr
    /\ tasks[runJob][1].task.name = NameA
    /\ Occurs(OutputPlaceholder(NameA), tasks[runJob][2].input_template)
    /\ co[2].st = "raised"
    /\ result = "TypeError"

(***************************************************************************)
(* Properties of BaseGeminiChat.chat                                       *)
(***************************************************************************)
\* the reply of the latest invocation of the model
LatestReply == modelLog[Len(modelLog)].reply

\* a Gemini agent whose chat primitive was called
GeminiChatCalled == agent.provider = "gemini" /\ modelLog # <<>>

\* the prompt of the reply was blocked for a reason other than unspecified
GeminiBlocked(reply) == reply.block_reason \notin {"", "BLOCK_REASON_UNSPECIFIED"}

\* the candidates of the reply that finished with STOP
StopCandidates(reply) ==
    {i \in 1..Len(reply.candidates) : reply.candidates[i].finish_reason = "STOP"}

\* the parts of the first candidate that finished with STOP
StopParts(reply) ==
    reply.candidates[CHOOSE i \in StopCandidates(reply) :
                        \A k \in StopCandidates(reply) : i <= k].parts

\* the parts of a list that hold a function call, and those that hold a text
CallParts(parts) == {i \in 1..Len(parts) : parts[i].kind = "function_call"}
TextParts(parts) == {i \in 1..Len(parts) : parts[i].kind = "text" /\ parts[i].text.v # <<>>}

CohereFailureReason(finish_reason) ==
    CASE finish_reason = "ERROR_TOXIC" -> "SAFETY_CHECK_FAILED"
      [] finish_reason = "ERROR_LIMIT" -> "LIMIT_EXCEEDED"
      [] finish_reason = "MAX_TOKENS" -> "MAX_TOKENS_REACHED"
      [] finish_reason = "USER_CANCEL" -> "CANCELLED"
      [] OTHER -> "OTHER"

\* a Cohere text-generation task whose execute, and so its one call of chat,
\* is over
CohereTextGenDone ==
    textgen.provider = "cohere" /\ textgen.pc = "done" /\ textgen.input.isStr

\* a Cohere agent whose chat primitive was called
CohereChatCalled == agent.provider = "cohere" /\ modelLog # <<>>

\* C24: BaseCohereChat.chat returns a ChatResponse only when the finish
\* reason of the provider's reply is COMPLETE; for any other finish reason it
\* raises TextGenFailedException with the failure reason SAFETY_CHECK_FAILED
\* (ERROR_TOXIC), LIMIT_EXCEEDED (ERROR_LIMIT), MAX_TOKENS_REACHED
\* (MAX_TOKENS), CANCELLED (USER_CANCEL) or OTHER, and the provider was
\* called exactly once.
C24_CohereReturnsOnlyWhenComplete ==
    /\ CohereTextGenDone =>
          /\ Len(textgen.calls) = 1
          /\ LET reply == textgen.calls[1].reply IN
             IF reply.finish_reason = "COMPLETE"
             THEN /\ textgen.outcome.kind = "return"
                  /\ textgen.outcome.content = reply.text
                  /\ textgen.outcome.raw_output = reply
             ELSE textgen.outcome = Raised("TextGenFailedException",
                                           CohereFailureReason(reply.finish_reason))
    /\ CohereChatCalled =>
          LET reply == modelLog[Len(modelLog)].reply IN
          IF reply.finish_reason = "COMPLETE"
          THEN /\ current.raw_output = reply
               /\ current.text = reply.text
          ELSE /\ pc = "done"
               /\ outcome = Raised("TextGenFailedException",
                                   CohereFailureReason(reply.finish_reason))

\* a Cohere task whose one provider call ended with USER_CANCEL raised
\* CANCELLED
C24_Witness ==
    /\ CohereTextGenDone
    /\ Len(textgen.calls) = 1
    /\ textgen.calls[1].reply.finish_reason = "USER_CANCEL"
    /\ textgen.outcome = Raised("TextGenFailedException", "CANCELLED")

(***************************************************************************)
(* CohereReranker.rerank                                                   *)
(***************************************************************************)
MaxDocs == 3
MaxResults == 2

\* the docs lists a caller hands to rerank
DocTexts == {Str(<<"a">>), Str(<<"b">>)}
DocLists == UNION {[1..n -> DocTexts] : n \in 0..MaxDocs}

\* the results a provider gives for a docs list: each holds an index; the
\* lowest and the highest one are not positions of the list
RerankResults(docs) ==
    UNION {[1..n -> [index : (-1)..Len(docs)]] : n \in 0..MaxResults}

\* an indexing that counts positions from 1
ListGetItemOneBased(list, index) ==
    IF index >= 1 /\ index <= Len(list)
    THEN [err |-> "none", val |-> list[index]]
    ELSE [err |-> "IndexError", val |-> NoneContent]

\* list[index] of a Python list: positions count from 0, a negative index
\* counts from the end, anything else raises IndexError
ListGetItem(list, index) ==
    IF index >= 0 /\ index < Len(list)
    THEN [err |-> "none", val |-> list[index + 1]]
    ELSE IF index < 0 /\ -index <= Len(list)
    THEN [err |-> "none", val |-> list[Len(list) + index + 1]]
    ELSE [err |-> "IndexError", val |-> NoneContent]

\* rerank(query, docs), up to the await of self.client.rerank
RerankCall ==
    \E docs \in DocLists :
        /\ reranker.pc = "idle"
        /\ reranker' = [reranker EXCEPT !.pc = "await", !.docs = docs, !.given = docs]
        /\ UNCHANGED notRerankVars

\* the provider answers, and reranked_docs starts empty
RerankReply ==
    /\ reranker.pc = "await"
    /\ \E rerank_res \in RerankResults(reranker.docs) :
          reranker' = [reranker EXCEPT !.pc = "loop", !.results = rerank_res,
                                       !.reranked_docs = <<>>]
    /\ UNCHANGED notRerankVars

\* one iteration of `for each in rerank_res.results`
RerankAppend ==
    /\ reranker.pc = "loop"
    /\ Len(reranker.reranked_docs) < Len(reranker.results)
    /\ LET each == reranker.results[Len(reranker.reranked_docs) + 1]
           doc == ListGetItem(reranker.docs, each.index)
       IN  reranker' =
              IF doc.err # "none"
              THEN [reranker EXCEPT !.pc = "done", !.outcome = "IndexError"]
              ELSE [reranker EXCEPT !.reranked_docs = Append(@, doc.val)]
    /\ UNCHANGED notRerankVars

\* return reranked_docs
RerankReturn ==
    /\ reranker.pc = "loop"
    /\ Len(reranker.reranked_docs) = Len(reranker.results)
    /\ reranker' = [reranker EXCEPT !.pc = "done", !.outcome = "return"]
    /\ UNCHANGED notRerankVars

RerankNext ==
    \/ RerankCall
    \/ RerankReply
    \/ RerankAppend
    \/ RerankReturn

RerankSpecInit == RerankInit /\ JobInit /\ ResIdle /\ AgentInit /\ TextGenInit /\ MemInit

SpecRerank == RerankSpecInit /\ [][RerankNext]_vars

(***************************************************************************)
(* Properties of CohereReranker.rerank                                     *)
(***************************************************************************)
\* rerank returned a list
RerankReturned == reranker.pc = "done" /\ reranker.outcome = "return"

\* the position, counted from 1, of the element docs[index] of a list of n
\* elements
PositionOf(index, n) == IF index >= 0 THEN index + 1 ELSE n + index + 1

\* C25: for the provider's results r_1..r_k, rerank returns exactly
\* docs[r_1.index], ..., docs[r_k.index]: each element of the returned list is
\* an element of the list it was given, in the order of the provider's
\* ranking, and the list it was given is left as it was.
C25_RerankReturnsDocsInRankOrder ==
    /\ reranker.docs = reranker.given
    /\ RerankReturned =>
          /\ Len(reranker.reranked_docs) = Len(reranker.results)
          /\ \A i \in 1..Len(reranker.results) :
                /\ PositionOf(reranker.results[i].index, Len(reranker.given))
                      \in 1..Len(reranker.given)
                /\ reranker.reranked_docs[i] =
                      reranker.given[PositionOf(reranker.results[i].index,
                                                Len(reranker.given))]

\* the provider ranked the second of two different docs first, and rerank
\* returned them in that order
C25_Witness ==
    /\ RerankReturned
    /\ Len(reranker.given) = 2
    /\ reranker.given[1] # reranker.given[2]
    /\ Len(reranker.results) = 2
    /\ reranker.results[1].index = 1
    /\ reranker.results[2].index = 0
    /\ reranker.reranked_docs = <<reranker.given[2], reranker.given[1]>>

(***************************************************************************)
(* Properties of a rejected add_task                                       *)
(***************************************************************************)
\* C26: an add_task call that raises (a name already in the job, an object
\* that is no Task) leaves the task list of the job as it was before the
\* call.
C26_RejectedAddTaskLeavesListAlone ==
    [][(nAdds' = nAdds + 1 /\ last'.op = "add_task" /\ last'.err # "none")
          => tasks' = tasks]_vars

(***************************************************************************)
(* Properties of the Memory of a job over several runs                     *)
(***************************************************************************)
\* the value a dict holds for a key
ValueOf(d, key) == d[CHOOSE i \in 1..Len(d) : d[i].key = key].val

\* the entries before hold are all still in now, and each holds its value of
\* before unless one of the coroutines in touched, of a task of that name,
\* wrote it
KeptUnlessWritten(before, now, touched) ==
    \A name \in Keys(before) :
        /\ name \in Keys(now)
        /\ ValueOf(now, name) # ValueOf(before, name)
              => \E i \in touched : tasks[runJob][i].task.name = name

\* C27: run does not clear the Memory of the job: what earlier runs recorded
\* is there when the run starts and stays until the task of that name records
\* anew, so a task is resolved against what an earlier run recorded for
\* itself or for a task registered after it.
C27_MemoryKeptAcrossRuns ==
    runJob # 0 =>
        /\ KeptUnlessWritten(memStart.inputs, memory[runJob].inputs,
                             {i \in 1..Len(co) : co[i].st # "new"})
        /\ KeptUnlessWritten(memStart.outputs, memory[runJob].outputs,
                             {i \in 1..Len(co) : co[i].st = "done"})
        /\ SeqLatest =>
              \A i \in 1..Len(co) :
                 co[i].st # "new" =>
                    /\ KeptUnlessWritten(memStart.outputs, co[i].memAt.outputs, 1..(i - 1))
                    /\ KeptUnlessWritten(memStart.inputs, co[i].memAt.inputs, 1..(i - 1))
                    /\ co[i].st = "awaiting" =>
                          co[i].input = ExecuteTaskInput(tasks[runJob][i], userInput,
                                                         co[i].memAt)

\* on its second run, the only task of a SequentialJob, whose template holds
\* its own output placeholder, was given the output its first run recorded
C27_Witness ==
    /\ SeqLatest
    /\ nRuns = 2
    /\ Len(co) = 1
    /\ tasks[runJob][1].task.name = NameA
    /\ Occurs(OutputPlaceholder(NameA), tasks[runJob][1].input_template)
    /\ NameA \in Keys(memStart.outputs)
    /\ ValueOf(memStart.outputs, NameA).isStr
    /\ userInput.isStr
    /\ co[1].st = "awaiting"
    /\ co[1].input = Str(userInput.v \o <<"=">> \o ValueOf(memStart.outputs, NameA).v)

(***************************************************************************)
(* Properties of the text the resolver inserts                             *)
(***************************************************************************)
\* the template holds no placeholder of a task recorded in m
NoTaskPlaceholder(template, m) ==
    /\ \A k \in 1..Len(m.inputs) : ~Occurs(InputPlaceholder(m.inputs[k].key), template)
    /\ \A k \in 1..Len(m.outputs) : ~Occurs(OutputPlaceholder(m.outputs[k].key), template)

\* C28: only the placeholders of the template are interpreted, the inserted
\* text is not scanned: when the template holds no placeholder of a recorded
\* task, the resolved input is the template with {{root}} replaced by the
\* root input, whatever the root input holds, the text of a placeholder of
\* a recorded task included.
C28_InsertedTextIsNotScanned ==
    (/\ resResult.st = "done"
     /\ resUserInput.isStr
     /\ AllStr(resMemory.inputs)
     /\ AllStr(resMemory.outputs)
     /\ NoTaskPlaceholder(resTemplate, resMemory))
        => /\ resResult.err = "none"
           /\ resResult.val = StrReplace(resTemplate, RootPlaceholder, resUserInput.v)

(***************************************************************************)
(* Properties of the Memory entries a template does not name               *)
(***************************************************************************)
\* C29: resolution depends only on the Memory entries whose placeholders the
\* template holds: a task whose template holds the placeholder of no
\* recorded task is resolved without error when it is reached, also when a
\* recorded content or the root input is not a str.
C29_UnreferencedEntriesDoNotMatter ==
    \A i \in 1..Len(co) :
        (/\ co[i].st # "new"
         /\ tasks[runJob][i].task.isTask
         /\ NoTaskPlaceholder(tasks[runJob][i].input_template, co[i].memAt))
            => ExecuteBeginError(tasks[runJob][i], userInput, co[i].memAt) = "none"

(***************************************************************************)
(* Properties of a ConcurrentJob whose task raises                         *)
(***************************************************************************)
\* the latest run raised
RunRaised == ~running /\ result \notin {"none", "ok"}

\* C30: when the execute of a task of a ConcurrentJob raises, run raises
\* that first exception at once, without waiting for the other tasks and
\* without cancelling them: from then on the exception run raised stays the
\* same, and a task that was in flight and returns afterwards still records
\* its output in Memory.
C30_FirstExceptionRaisedSiblingsGoOn ==
    [][ConcLatest' =>
          /\ (\E i \in 1..Len(co') : co'[i].st = "raised") => RunRaised'
          /\ (ConcLatest /\ RunRaised /\ runJob' = runJob /\ nRuns' = nRuns) =>
                /\ result' = result
                /\ ~running'
                /\ \A i \in 1..Len(co) :
                      (co[i].st = "awaiting" /\ co'[i].st = "done") =>
                         ValueOf(memory'[runJob].outputs, tasks[runJob][i].task.name)
                            = co'[i].output]_vars

\* the first of two tasks raised, run raised with it, and the second task,
\* in flight at that time, returned afterwards and its output is in Memory
C30_Witness ==
    /\ ConcLatest
    /\ Len(co) = 2
    /\ tasks[runJob][1].task.name # tasks[runJob][2].task.name
    /\ RunRaised
    /\ result = "TaskError"
    /\ co[1].st = "raised"
    /\ co[2].st = "done"
    /\ last = [op |-> "step", job |-> runJob, err |-> "none"]
    /\ OutputWritten(2)

====
